---- MODULE Spec2Model ----
(***************************************************************************)
(* Model of the batch upload / analysis orchestration of viz-search:       *)
(*   lib/batch-processor.ts  withRetry, processSingleImage, processBatch,  *)
(*                           processImagesInBatches                        *)
(*                           searchImageBatch, searchImagesInBatches       *)
(*   app/page.tsx            handleFilesUploaded, processImages,           *)
(*                           handleSearch                                  *)
(*   lib/api.ts, app/api/search-images/route.ts   searchImagesAPI, POST    *)
(***************************************************************************)
EXTENDS Integers, Sequences, FiniteSets, TLC

VARIABLES retry, trace, images, upload_progress, runs, nextId, faulty, groupFaults,
          batchSize, search, search_state, searches, mode

vars == <<retry, trace, images, upload_progress, runs, nextId, faulty, groupFaults,
         batchSize, search, search_state, searches, mode>>

appVars == <<images, upload_progress, runs, nextId, faulty, groupFaults,
            batchSize, search, search_state, searches, mode>>

(***************************************************************************)
(* Bounds of the model.                                                    *)
(***************************************************************************)
MaxRetriesBound == 3

MaxImages == 3

MaxRuns == 2

MaxFaultyImages == 1

MaxGroupFaults == 1

MaxBatchSize == 2

MaxSearches == 2

(***************************************************************************)
(* Program constants.                                                      *)
(***************************************************************************)
MAX_RETRIES == 3

INITIAL_RETRY_DELAY == 1000

INTER_BATCH_DELAY == 100

NULL == [kind |-> "null"]

Pow2(n) == IF n <= 0 THEN 1 ELSE 2 ^ n

(***************************************************************************)
(* JavaScript values that an operation can throw.  origin is the number of *)
(* the invocation that created the value (its identity); origin 0 marks a  *)
(* value created by withRetry itself.                                      *)
(***************************************************************************)
ErrorObj(msg, n) == [kind |-> "Error", text |-> msg, origin |-> n]

StringVal(s, n) == [kind |-> "string", text |-> s, origin |-> n]

UndefinedVal(n) == [kind |-> "undefined", text |-> "", origin |-> n]

\* error instanceof Error
InstanceOfError(e) == e.kind = "Error"

\* String(error)
JSString(e) ==
  CASE e.kind = "Error"     -> IF e.text = "" THEN "Error" ELSE "Error: " \o e.text
    [] e.kind = "string"    -> e.text
    [] e.kind = "undefined" -> "undefined"

\* error instanceof Error ? error : new Error(String(error))
NormalizeError(e) == IF InstanceOfError(e) THEN e ELSE ErrorObj(JSString(e), 0)

(***************************************************************************)
(* withRetry as a state machine over one activation record holding the     *)
(* locals of the function.                                                 *)
(*   state   "calling"  : operation() is in flight (attempt `attempt`)     *)
(*           "sleeping" : await sleep(delay) is in flight                  *)
(*           "returned" : withRetry resolved with `value`                  *)
(*           "thrown"   : withRetry rejected with `thrown`                 *)
(***************************************************************************)
WithRetryStart(maxRetries, initialDelay) ==
  [maxRetries |-> maxRetries, initialDelay |-> initialDelay,
   attempt |-> 0, state |-> "calling", delay |-> 0,
   lastError |-> NULL, value |-> NULL, thrown |-> NULL]

\* Variant: the `return` is missing, the loop goes on after a success.
WithRetryResolveNoReturn(r, v) ==
  IF r.attempt < r.maxRetries
    THEN [r EXCEPT !.value = v, !.attempt = @ + 1]
    ELSE [r EXCEPT !.state = "returned", !.value = v]

\* return await operation();
WithRetryResolve(r, v) == [r EXCEPT !.state = "returned", !.value = v]

\* Variant: the loop gives up one attempt early (attempt + 1 === maxRetries).
WithRetryRejectEarly(r, e) ==
  LET err == NormalizeError(e)
      r1  == [r EXCEPT !.lastError = err]
  IN IF r.attempt + 1 >= r.maxRetries
       THEN [r1 EXCEPT !.state = "thrown", !.thrown = err]
       ELSE [r1 EXCEPT !.state = "sleeping",
                       !.delay = r.initialDelay * Pow2(r.attempt)]

\* Variant: linear backoff, initialDelay * (attempt + 1).
WithRetryRejectLinear(r, e) ==
  LET err == NormalizeError(e)
      r1  == [r EXCEPT !.lastError = err]
  IN IF r.attempt = r.maxRetries
       THEN [r1 EXCEPT !.state = "thrown", !.thrown = err]
       ELSE [r1 EXCEPT !.state = "sleeping",
                       !.delay = r.initialDelay * (r.attempt + 1)]

\* Variant: the first error is kept (lastError assigned only once).
WithRetryRejectFirst(r, e) ==
  LET err == IF r.lastError = NULL THEN NormalizeError(e) ELSE r.lastError
      r1  == [r EXCEPT !.lastError = err]
  IN IF r.attempt = r.maxRetries
       THEN [r1 EXCEPT !.state = "thrown", !.thrown = err]
       ELSE [r1 EXCEPT !.state = "sleeping",
                       !.delay = r.initialDelay * Pow2(r.attempt)]

\* Variant: one more attempt is made before giving up
\* (attempt === maxRetries + 1).
WithRetryRejectLate(r, e) ==
  LET err == NormalizeError(e)
      r1  == [r EXCEPT !.lastError = err]
  IN IF r.attempt = r.maxRetries + 1
       THEN [r1 EXCEPT !.state = "thrown", !.thrown = err]
       ELSE [r1 EXCEPT !.state = "sleeping",
                       !.delay = r.initialDelay * Pow2(r.attempt)]

\* catch (error) { ... }
WithRetryReject(r, e) ==
  LET err == NormalizeError(e)
      r1  == [r EXCEPT !.lastError = err]
  IN IF r.attempt = r.maxRetries
       THEN [r1 EXCEPT !.state = "thrown", !.thrown = err]
       ELSE [r1 EXCEPT !.state = "sleeping",
                       !.delay = r.initialDelay * Pow2(r.attempt)]

\* sleep(delay) elapsed; attempt++; operation() is invoked again
WithRetryWake(r) == [r EXCEPT !.state = "calling", !.attempt = @ + 1]

(***************************************************************************)
(* Specification SpecRetry: withRetry alone, for any maxRetries and any    *)
(* behaviour of the operation.  `trace` observes the call: the number of   *)
(* invocations of the operation, what each failed invocation threw, and    *)
(* the delays passed to sleep.                                             *)
(***************************************************************************)
RetryDelays == {INITIAL_RETRY_DELAY, 250}

ThrownValues(n) ==
  {ErrorObj("Failed to upload file", n), ErrorObj("", n),
   StringVal("timeout", n), UndefinedVal(n)}

ReturnValue(n) == [kind |-> "value", origin |-> n]

TraceStart == [calls |-> 1, rejections |-> <<>>, delays |-> <<>>]

\* searchImagesInBatches has not been called
SearchIdle == [pc |-> "idle"]

UNDEFINED == "<undefined>"

\* initialState.search_state (page.tsx)
InitialSearchState ==
  [query |-> "", results |-> <<>>, is_searching |-> FALSE,
   last_search_time |-> UNDEFINED]

AppInit ==
  /\ images = <<>>
  /\ upload_progress = NULL
  /\ runs = <<>>
  /\ nextId = 1
  /\ faulty = {}
  /\ groupFaults = 0
  /\ batchSize = 1
  /\ search = SearchIdle
  /\ search_state = InitialSearchState
  /\ searches = <<>>
  /\ mode = "upload"

RetryInit ==
  /\ \E m \in 0..MaxRetriesBound, d \in RetryDelays :
        retry = WithRetryStart(m, d)
  /\ trace = TraceStart
  /\ AppInit

OperationResolves ==
  /\ retry.state = "calling"
  /\ retry' = WithRetryResolve(retry, ReturnValue(trace.calls))
  /\ trace' = [trace EXCEPT !.calls = IF retry'.state = "calling" THEN @ + 1 ELSE @]
  /\ UNCHANGED appVars

OperationRejects ==
  /\ retry.state = "calling"
  /\ \E e \in ThrownValues(trace.calls) :
       /\ retry' = WithRetryReject(retry, e)
       /\ trace' = [trace EXCEPT
                      !.rejections = Append(@, e),
                      !.delays = IF retry'.state = "sleeping"
                                   THEN Append(@, retry'.delay) ELSE @]
  /\ UNCHANGED appVars

SleepElapses ==
  /\ retry.state = "sleeping"
  /\ retry' = WithRetryWake(retry)
  /\ trace' = [trace EXCEPT !.calls = IF retry'.state = "calling" THEN @ + 1 ELSE @]
  /\ UNCHANGED appVars

RetryNext == OperationResolves \/ OperationRejects \/ SleepElapses

SpecRetry == RetryInit /\ [][RetryNext]_vars

Last(s) == s[Len(s)]

(***************************************************************************)
(* C4  Retry bound: the operation is invoked at most maxRetries + 1 times; *)
(* withRetry fails exactly when maxRetries + 1 invocations have failed,    *)
(* and as long as fewer have failed it has not given up.                   *)
(***************************************************************************)
C4_RetryBound ==
  /\ trace.calls <= retry.maxRetries + 1
  /\ retry.state = "thrown" =>
        /\ trace.calls = retry.maxRetries + 1
        /\ Len(trace.rejections) = retry.maxRetries + 1
  /\ Len(trace.rejections) = retry.maxRetries + 1 => retry.state = "thrown"
  /\ retry.state = "sleeping" => trace.calls <= retry.maxRetries

C4_Witness ==
  /\ retry.state = "thrown"
  /\ retry.maxRetries = 3
  /\ trace.calls = 4

(***************************************************************************)
(* C5  Retry success: when the operation fails k <= maxRetries times and   *)
(* then succeeds, withRetry returns the value of that successful           *)
(* invocation, and the operation has been invoked exactly k + 1 times (so  *)
(* never again after the success).                                         *)
(***************************************************************************)
C5_RetrySuccess ==
  /\ retry.state = "returned" =>
        /\ Len(trace.rejections) <= retry.maxRetries
        /\ trace.calls = Len(trace.rejections) + 1
        /\ retry.value = ReturnValue(Len(trace.rejections) + 1)
  /\ retry.state # "returned" => retry.value = NULL

C5_Witness ==
  /\ retry.state = "returned"
  /\ retry.maxRetries = 3
  /\ Len(trace.rejections) = 2
  /\ trace.calls = 3

(***************************************************************************)
(* C6  Backoff: the k-th wait (k = 0, 1, ...) follows failed attempt k and *)
(* lasts initialDelay * 2^k; there is one wait per failed attempt except   *)
(* the final one, and none after a success.                                *)
(***************************************************************************)
C6_Backoff ==
  /\ \A k \in 1..Len(trace.delays) :
        trace.delays[k] = retry.initialDelay * 2 ^ (k - 1)
  /\ retry.state = "thrown" => Len(trace.delays) = retry.maxRetries
  /\ retry.state # "thrown" => Len(trace.delays) = Len(trace.rejections)
  /\ retry.state = "calling" => Len(trace.delays) = retry.attempt

C6_Witness ==
  /\ retry.state = "thrown"
  /\ retry.maxRetries = MAX_RETRIES
  /\ retry.initialDelay = INITIAL_RETRY_DELAY
  /\ trace.delays = <<1000, 2000, 4000>>

(***************************************************************************)
(* C7  (as stated) On failure of the final attempt the caller catches the  *)
(* very value thrown by the last invocation of the operation.              *)
(***************************************************************************)
C7_LastErrorUnchanged ==
  retry.state = "thrown" => retry.thrown = Last(trace.rejections)

(***************************************************************************)
(* C7  (amended) On failure of the final attempt the caller catches the    *)
(* value thrown by the last invocation when that value is an Error; when   *)
(* it is not an Error, the caller catches a new Error whose message is the *)
(* string form of that last value.  Never the error of an earlier attempt. *)
(***************************************************************************)
C7_LastErrorNormalized ==
  retry.state = "thrown" =>
    LET last == Last(trace.rejections)
    IN CASE last.kind = "Error"     -> retry.thrown = last
         [] last.kind = "string"    ->
              retry.thrown = [kind |-> "Error", text |-> last.text, origin |-> 0]
         [] last.kind = "undefined" ->
              retry.thrown = [kind |-> "Error", text |-> "undefined", origin |-> 0]

C7_Witness ==
  /\ retry.state = "thrown"
  /\ Len(trace.rejections) >= 2
  /\ trace.rejections[1].kind = "string"
  /\ Last(trace.rejections).kind = "Error"
  /\ retry.thrown = Last(trace.rejections)

(***************************************************************************)
(* processSingleImage: one activation per image.                           *)
(*   step     "upload" | "analyze" | "done"                                *)
(*   r        the withRetry activation of the current step                 *)
(*   promise  state of the promise returned by processSingleImage          *)
(***************************************************************************)
\* `x || ""` on a string-or-undefined value
OrEmpty(x) == IF x = UNDEFINED \/ x = "" THEN "" ELSE x

\* `x || d` on a string-or-undefined value
OrDefault(x, d) == IF x = UNDEFINED \/ x = "" THEN d ELSE x

SuccessResult(id, uri, a) ==
  [success |-> TRUE, image |-> id, geminiFileUri |-> uri,
   ocrText |-> a.ocr_text, imageDescription |-> a.image_description,
   error |-> UNDEFINED]

FailureResult(id, msg) ==
  [success |-> FALSE, image |-> id, geminiFileUri |-> UNDEFINED,
   ocrText |-> UNDEFINED, imageDescription |-> UNDEFINED, error |-> msg]

ProcessSingleImageStart(id) ==
  [image |-> id, step |-> "upload",
   r |-> WithRetryStart(MAX_RETRIES, INITIAL_RETRY_DELAY),
   geminiFileUri |-> UNDEFINED,
   promise |-> "pending", value |-> NULL, reason |-> NULL]

\* Variant: no try/catch, the error of withRetry escapes the task.
ProcessSingleImageRethrow(t, err) ==
  [t EXCEPT !.step = "done", !.promise = "rejected", !.reason = err]

\* Variant: the failure outcome carries the file reference of an upload
\* that succeeded before the analyze step failed.
ProcessSingleImageCatchWithUri(t, err) ==
  [t EXCEPT !.step = "done", !.promise = "fulfilled",
            !.value = [FailureResult(t.image,
                         IF InstanceOfError(err) THEN err.text
                                                 ELSE "Processing failed")
                       EXCEPT !.geminiFileUri = t.geminiFileUri]]

\* catch (error) { return { success: false, image, error: ... } }
ProcessSingleImageCatch(t, err) ==
  [t EXCEPT !.step = "done", !.promise = "fulfilled",
            !.value = FailureResult(t.image,
                        IF InstanceOfError(err) THEN err.text
                                                ELSE "Processing failed")]

\* Variant: the value returned by the upload is not kept; the analyze step
\* is entered without it.
ProcessSingleImageResolveNoUri(t, v) ==
  IF t.step = "upload"
    THEN [t EXCEPT !.step = "analyze",
                   !.r = WithRetryStart(MAX_RETRIES, INITIAL_RETRY_DELAY)]
    ELSE [t EXCEPT !.step = "done", !.promise = "fulfilled",
                   !.r = WithRetryResolve(t.r, v),
                   !.value = SuccessResult(t.image, t.geminiFileUri, v)]

\* the remote call of the current step resolved with v
ProcessSingleImageResolve(t, v) ==
  IF t.step = "upload"
    THEN [t EXCEPT !.geminiFileUri = v, !.step = "analyze",
                   !.r = WithRetryStart(MAX_RETRIES, INITIAL_RETRY_DELAY)]
    ELSE [t EXCEPT !.step = "done", !.promise = "fulfilled",
                   !.r = WithRetryResolve(t.r, v),
                   !.value = SuccessResult(t.image, t.geminiFileUri, v)]

\* the remote call of the current step rejected with e
ProcessSingleImageReject(t, e) ==
  LET r2 == WithRetryReject(t.r, e)
      t2 == [t EXCEPT !.r = r2]
  IN IF r2.state = "thrown" THEN ProcessSingleImageCatch(t2, r2.thrown)
                            ELSE t2

\* the backoff sleep of the current step elapsed: next attempt is issued
ProcessSingleImageWake(t) ==
  [t EXCEPT !.r = WithRetryWake(t.r)]

(***************************************************************************)
(* processBatch: Promise.allSettled over the tasks of one group, then the  *)
(* conversion of each settled promise to a BatchProcessResult.             *)
(***************************************************************************)
AllSettled(tasks) == \A k \in 1..Len(tasks) : tasks[k].promise # "pending"

SettledToResult(t) ==
  IF t.promise = "fulfilled"
    THEN t.value
    ELSE FailureResult(t.image,
           IF InstanceOfError(t.reason) THEN t.reason.text
                                        ELSE "Batch processing failed")

\* Variant: fail-fast, one failed task fails every task of the group.
ProcessBatchFailFast(tasks) ==
  [k \in 1..Len(tasks) |->
     IF \E j \in 1..Len(tasks) : ~SettledToResult(tasks[j]).success
       THEN FailureResult(tasks[k].image, "Batch processing failed")
       ELSE SettledToResult(tasks[k])]

\* Variant: results are collected in the order given (no index mapping),
\* here reversed.
ProcessBatchReversed(tasks) ==
  [k \in 1..Len(tasks) |-> SettledToResult(tasks[Len(tasks) + 1 - k])]

ProcessBatch(tasks) == [k \in 1..Len(tasks) |-> SettledToResult(tasks[k])]

(***************************************************************************)
(* page.tsx: image records and the state updates of processImages.         *)
(***************************************************************************)
NewImage(id) ==
  [id |-> id, processing_status |-> "pending", gemini_file_uri |-> UNDEFINED,
   ocr_text |-> "", image_description |-> "", error_message |-> UNDEFINED]

\* Variant: every record of the collection is marked, not only the new ones.
MarkProcessingAll(imgs, ids) ==
  [k \in 1..Len(imgs) |-> [imgs[k] EXCEPT !.processing_status = "processing"]]

\* images.find((newImg) => newImg.id === img.id) ? {...processing} : img
MarkProcessing(imgs, ids) ==
  [k \in 1..Len(imgs) |->
     IF \E j \in 1..Len(ids) : ids[j] = imgs[k].id
       THEN [imgs[k] EXCEPT !.processing_status = "processing"]
       ELSE imgs[k]]

\* batchResults.find((r) => r.image.id === img.id): index of first match, 0 if none
FindResult(batchResults, id) ==
  IF \E k \in 1..Len(batchResults) : batchResults[k].image = id
    THEN CHOOSE k \in 1..Len(batchResults) :
           /\ batchResults[k].image = id
           /\ \A j \in 1..(k - 1) : batchResults[j].image # id
    ELSE 0

\* Variant: the `|| ""` defaults are missing.
MergeResultNoDefault(img, result) ==
  IF result.success
    THEN [img EXCEPT !.processing_status = "completed",
                     !.gemini_file_uri = result.geminiFileUri,
                     !.ocr_text = result.ocrText,
                     !.image_description = result.imageDescription]
    ELSE [img EXCEPT !.processing_status = "error",
                     !.error_message = OrDefault(result.error, "Processing failed")]

MergeResult(img, result) ==
  IF result.success
    THEN [img EXCEPT !.processing_status = "completed",
                     !.gemini_file_uri = result.geminiFileUri,
                     !.ocr_text = OrEmpty(result.ocrText),
                     !.image_description = OrEmpty(result.imageDescription)]
    ELSE [img EXCEPT !.processing_status = "error",
                     !.error_message = OrDefault(result.error, "Processing failed")]

\* Variant: only the first outcome of the batch is merged.
MergeBatchFirstOnly(imgs, batchResults) ==
  [k \in 1..Len(imgs) |->
     IF Len(batchResults) > 0 /\ batchResults[1].image = imgs[k].id
       THEN MergeResult(imgs[k], batchResults[1]) ELSE imgs[k]]

\* Variant: the collection is filtered down to the records with an outcome.
MergeBatchDropOthers(imgs, batchResults) ==
  LET merged == [k \in 1..Len(imgs) |->
                   LET f == FindResult(batchResults, imgs[k].id)
                   IN IF f # 0 THEN MergeResult(imgs[k], batchResults[f])
                               ELSE imgs[k]]
  IN SelectSeq(merged, LAMBDA img : FindResult(batchResults, img.id) # 0)

\* Variant: the update starts from the collection as it was when the run
\* began (every record without an outcome is written back as processing).
MergeBatchStale(imgs, batchResults) ==
  [k \in 1..Len(imgs) |->
     LET f == FindResult(batchResults, imgs[k].id)
     IN IF f # 0 THEN MergeResult(imgs[k], batchResults[f])
                 ELSE [NewImage(imgs[k].id) EXCEPT !.processing_status = "processing"]]

\* prev.images.map((img) => { const result = batchResults.find(...); ... })
MergeBatch(imgs, batchResults) ==
  [k \in 1..Len(imgs) |->
     LET f == FindResult(batchResults, imgs[k].id)
     IN IF f # 0 THEN MergeResult(imgs[k], batchResults[f]) ELSE imgs[k]]

\* Math.round(x / y * 100) for x >= 0, y > 0
RoundPercent(x, y) == (200 * x + y) \div (2 * y)

Min(a, b) == IF a <= b THEN a ELSE b

InitialProgress(n) ==
  [total |-> n, completed |-> 0,
   current_file |-> "Processing " \o ToString(n) \o " images in batches...",
   percentage |-> 0]

\* Variant: the update adds to the previous progress instead of setting it.
BatchProgressAccumulate(progress, batchIndex, totalBatches, n) ==
  IF progress # NULL
    THEN [progress EXCEPT
            !.completed = Min(@ + 5, n),
            !.current_file = "Batch " \o ToString(batchIndex + 1) \o "/"
                             \o ToString(totalBatches) \o " complete",
            !.percentage = @ + RoundPercent(1, totalBatches)]
    ELSE NULL

BatchProgress(progress, batchIndex, totalBatches, n) ==
  IF progress # NULL
    THEN [progress EXCEPT
            !.completed = Min((batchIndex + 1) * 5, n),
            !.current_file = "Batch " \o ToString(batchIndex + 1) \o "/"
                             \o ToString(totalBatches) \o " complete",
            !.percentage = RoundPercent(batchIndex + 1, totalBatches)]
    ELSE NULL

(***************************************************************************)
(* processImagesInBatches: one activation (run) per call of processImages. *)
(*   callbacks  the calls of onBatchComplete so far: the outcomes passed    *)
(*       are allResults[first .. first + count - 1]                        *)
(*   pc  "batch" : awaiting processBatch(batch)                            *)
(*       "sleep" : awaiting sleep(100) between two groups                  *)
(*       "timer" : returned; the progress-clearing timeout is pending      *)
(*       "done"  : the timeout has fired                                   *)
(*       "rejected" : the promise of processImagesInBatches was rejected   *)
(***************************************************************************)
\* Math.ceil(n / b)
CeilDiv(n, b) == (n + b - 1) \div b

\* images.slice(i, i + b), i 0-based
\* Variant: the slice starts one element early (off by one), so that
\* consecutive groups overlap.
SliceOverlap(s, i, b) == SubSeq(s, IF i = 0 THEN 1 ELSE i, Min(i + b, Len(s)))

Slice(s, i, b) == SubSeq(s, i + 1, Min(i + b, Len(s)))

LaunchBatch(ids) == [k \in 1..Len(ids) |-> ProcessSingleImageStart(ids[k])]

\* Variant: the loop condition is tested after the body (do ... while), so
\* a first group is sliced and awaited even when there is no image.
StartRunNoLoopGuard(ids, b) ==
  [images |-> ids, batchSize |-> b, totalBatches |-> CeilDiv(Len(ids), b),
   i |-> 0, pc |-> "batch", tasks |-> LaunchBatch(Slice(ids, 0, b)),
   allResults |-> <<>>, callbacks |-> <<>>, sleeps |-> <<>>,
   returned |-> FALSE, faulted |-> {}]

\* Variant: no grouping, the tasks of all images are launched at once.
StartRunUngrouped(ids, b) ==
  [images |-> ids, batchSize |-> b, totalBatches |-> CeilDiv(Len(ids), b),
   i |-> 0, pc |-> IF Len(ids) = 0 THEN "timer" ELSE "batch",
   tasks |-> LaunchBatch(ids),
   allResults |-> <<>>, callbacks |-> <<>>, sleeps |-> <<>>,
   returned |-> (Len(ids) = 0), faulted |-> {}]

\* processImagesInBatches(images, onBatchComplete) up to its first await:
\* with `i < images.length` false at i = 0 the loop body never runs and the
\* call returns [] at once; otherwise the first group is sliced and launched.
StartRun(ids, b) ==
  IF Len(ids) = 0
    THEN [images |-> ids, batchSize |-> b, totalBatches |-> 0,
          i |-> 0, pc |-> "timer", tasks |-> <<>>,
          allResults |-> <<>>, callbacks |-> <<>>, sleeps |-> <<>>,
          returned |-> TRUE, faulted |-> {}]
    ELSE [images |-> ids, batchSize |-> b, totalBatches |-> CeilDiv(Len(ids), b),
          i |-> 0, pc |-> "batch", tasks |-> LaunchBatch(Slice(ids, 0, b)),
          allResults |-> <<>>, callbacks |-> <<>>, sleeps |-> <<>>,
          returned |-> FALSE, faulted |-> {}]

BatchIndex(run) == run.i \div run.batchSize

\* Variant: onBatchComplete is given a 1-based group index.
AfterBatchOneBased(run, batchResults) ==
  LET run1 == [run EXCEPT
                 !.allResults = @ \o batchResults,
                 !.callbacks = Append(@, [first |-> Len(run.allResults) + 1,
                                          count |-> Len(batchResults),
                                          batchIndex |-> BatchIndex(run) + 1,
                                          totalBatches |-> run.totalBatches])]
  IN IF run.i + run.batchSize < Len(run.images)
       THEN [run1 EXCEPT !.pc = "sleep", !.tasks = <<>>, !.sleeps = Append(@, INTER_BATCH_DELAY)]
       ELSE [run1 EXCEPT !.pc = "timer", !.tasks = <<>>, !.returned = TRUE,
                         !.i = @ + run.batchSize]

\* body of the for loop after `await processBatch(batch)` has resolved
AfterBatch(run, batchResults) ==
  LET run1 == [run EXCEPT
                 !.allResults = @ \o batchResults,
                 !.callbacks = Append(@, [first |-> Len(run.allResults) + 1,
                                          count |-> Len(batchResults),
                                          batchIndex |-> BatchIndex(run),
                                          totalBatches |-> run.totalBatches])]
  IN IF run.i + run.batchSize < Len(run.images)
       THEN [run1 EXCEPT !.pc = "sleep", !.tasks = <<>>, !.sleeps = Append(@, INTER_BATCH_DELAY)]
       ELSE [run1 EXCEPT !.pc = "timer", !.tasks = <<>>, !.returned = TRUE,
                         !.i = @ + run.batchSize]

\* Variant: the next group is sliced twice as large as the batch size.
NextBatchDouble(run) ==
  LET i2 == run.i + run.batchSize
  IN [run EXCEPT !.i = i2, !.pc = "batch",
                 !.tasks = LaunchBatch(Slice(run.images, i2, 2 * run.batchSize))]

\* i += batchSize; next group is sliced and launched
NextBatch(run) ==
  LET i2 == run.i + run.batchSize
  IN [run EXCEPT !.i = i2, !.pc = "batch",
                 !.tasks = LaunchBatch(Slice(run.images, i2, run.batchSize))]

\* Variant: the catch branch reports the group and then rethrows, so the
\* promise of processImagesInBatches is rejected.
AfterBatchFaultRethrow(run, error) ==
  LET batch == Slice(run.images, run.i, run.batchSize)
      errorResults ==
        [k \in 1..Len(batch) |->
           FailureResult(batch[k], IF InstanceOfError(error) THEN error.text
                                                             ELSE "Batch failed")]
  IN [run EXCEPT
        !.allResults = @ \o errorResults,
        !.faulted = @ \cup {BatchIndex(run)},
        !.callbacks = Append(@, [first |-> Len(run.allResults) + 1,
                                 count |-> Len(errorResults),
                                 batchIndex |-> BatchIndex(run),
                                 totalBatches |-> run.totalBatches]),
        !.pc = "rejected", !.tasks = <<>>]

\* Variant: the catch branch reports the group and then leaves the loop
\* (break), so the groups after a faulted one are never processed.
AfterBatchFaultBreak(run, error) ==
  LET batch == Slice(run.images, run.i, run.batchSize)
      errorResults ==
        [k \in 1..Len(batch) |->
           FailureResult(batch[k], IF InstanceOfError(error) THEN error.text
                                                             ELSE "Batch failed")]
  IN [run EXCEPT
        !.allResults = @ \o errorResults,
        !.faulted = @ \cup {BatchIndex(run)},
        !.callbacks = Append(@, [first |-> Len(run.allResults) + 1,
                                 count |-> Len(errorResults),
                                 batchIndex |-> BatchIndex(run),
                                 totalBatches |-> run.totalBatches]),
        !.pc = "timer", !.tasks = <<>>, !.returned = TRUE,
        !.i = @ + run.batchSize]

\* catch (error) { ... } of the for loop: error results, callback, next group
AfterBatchFault(run, error) ==
  LET batch == Slice(run.images, run.i, run.batchSize)
      errorResults ==
        [k \in 1..Len(batch) |->
           FailureResult(batch[k], IF InstanceOfError(error) THEN error.text
                                                             ELSE "Batch failed")]
      run1 == [run EXCEPT
                 !.allResults = @ \o errorResults,
                 !.faulted = @ \cup {BatchIndex(run)},
                 !.callbacks = Append(@, [first |-> Len(run.allResults) + 1,
                                          count |-> Len(errorResults),
                                          batchIndex |-> BatchIndex(run),
                                          totalBatches |-> run.totalBatches])]
  IN IF run.i + run.batchSize < Len(run.images)
       THEN NextBatch(run1)
       ELSE [run1 EXCEPT !.pc = "timer", !.tasks = <<>>, !.returned = TRUE,
                         !.i = @ + run.batchSize]

\* the outcomes passed to the c-th onBatchComplete call of the run
CallbackResults(run, c) ==
  SubSeq(run.allResults, run.callbacks[c].first,
         run.callbacks[c].first + run.callbacks[c].count - 1)

LastCallbackResults(run) == CallbackResults(run, Len(run.callbacks))

(***************************************************************************)
(* Remote collaborators (api.ts): what a call can answer.                  *)
(***************************************************************************)
FileUri(id) == "files/" \o ToString(id)

\* What the model answers for an image: complete for odd ids, a description
\* without text fields for even ids.
AnalysisReply(id) ==
  IF id % 2 = 1 THEN [ocr_text |-> "text", image_description |-> "a screenshot"]
                ELSE [ocr_text |-> "", image_description |-> UNDEFINED]

UploadError(n) == ErrorObj("Failed to upload file", n)

AnalyzeError(n) == ErrorObj("Failed to analyze image", n)

GroupError == ErrorObj("group failed", 1)

(***************************************************************************)
(* Actions of the application.                                             *)
(***************************************************************************)
\* The remote calls made for an image may fail when the image is one of the
\* (at most MaxFaultyImages) images whose calls fail.
MayFail(id) == id \in faulty \/ Cardinality(faulty) < MaxFaultyImages

\* handleFilesUploaded(files) with n files, including the synchronous part
\* of processImages(newImages) up to the first await.
HandleFilesUploaded(n) ==
  /\ nextId + n - 1 <= MaxImages
  /\ Len(runs) < MaxRuns
  /\ LET ids == [k \in 1..n |-> nextId + k - 1]
         appended == images \o [k \in 1..n |-> NewImage(ids[k])]
     IN /\ images' = MarkProcessing(appended, ids)
        /\ upload_progress' = InitialProgress(n)
        /\ runs' = Append(runs, StartRun(ids, batchSize))
        /\ nextId' = nextId + n
        /\ mode' = "search"
  /\ UNCHANGED <<search_state, searches, search, retry, trace, faulty, groupFaults, batchSize>>

SetTask(r, k, t) == runs' = [runs EXCEPT ![r].tasks[k] = t]

UploadResolves(r, k) ==
  /\ runs[r].pc = "batch"
  /\ runs[r].tasks[k].step = "upload"
  /\ runs[r].tasks[k].r.state = "calling"
  /\ SetTask(r, k, ProcessSingleImageResolve(runs[r].tasks[k],
                                             FileUri(runs[r].tasks[k].image)))
  /\ UNCHANGED <<mode, search_state, searches, search, retry, trace, images, upload_progress, nextId, faulty, groupFaults,
                 batchSize>>

UploadRejects(r, k) ==
  /\ runs[r].pc = "batch"
  /\ runs[r].tasks[k].step = "upload"
  /\ runs[r].tasks[k].r.state = "calling"
  /\ MayFail(runs[r].tasks[k].image)
  /\ faulty' = faulty \cup {runs[r].tasks[k].image}
  /\ SetTask(r, k, ProcessSingleImageReject(runs[r].tasks[k],
                                            UploadError(runs[r].tasks[k].r.attempt + 1)))
  /\ UNCHANGED <<mode, search_state, searches, search, retry, trace, images, upload_progress, nextId, groupFaults, batchSize>>

AnalyzeResolves(r, k) ==
  /\ runs[r].pc = "batch"
  /\ runs[r].tasks[k].step = "analyze"
  /\ runs[r].tasks[k].r.state = "calling"
  /\ SetTask(r, k, ProcessSingleImageResolve(runs[r].tasks[k],
                                             AnalysisReply(runs[r].tasks[k].image)))
  /\ UNCHANGED <<mode, search_state, searches, search, retry, trace, images, upload_progress, nextId, faulty, groupFaults,
                 batchSize>>

AnalyzeRejects(r, k) ==
  /\ runs[r].pc = "batch"
  /\ runs[r].tasks[k].step = "analyze"
  /\ runs[r].tasks[k].r.state = "calling"
  /\ MayFail(runs[r].tasks[k].image)
  /\ faulty' = faulty \cup {runs[r].tasks[k].image}
  /\ SetTask(r, k, ProcessSingleImageReject(runs[r].tasks[k],
                                            AnalyzeError(runs[r].tasks[k].r.attempt + 1)))
  /\ UNCHANGED <<mode, search_state, searches, search, retry, trace, images, upload_progress, nextId, groupFaults, batchSize>>

RetrySleepElapses(r, k) ==
  /\ runs[r].pc = "batch"
  /\ runs[r].tasks[k].step # "done"
  /\ runs[r].tasks[k].r.state = "sleeping"
  /\ SetTask(r, k, ProcessSingleImageWake(runs[r].tasks[k]))
  /\ UNCHANGED <<mode, search_state, searches, search, retry, trace, images, upload_progress, nextId, faulty, groupFaults,
                 batchSize>>

\* Promise.allSettled resolved: processBatch returns, results are pushed,
\* onBatchComplete runs (page.tsx), then sleep(100) or return + setTimeout.
BatchSettles(r) ==
  /\ runs[r].pc = "batch"
  /\ AllSettled(runs[r].tasks)
  /\ LET batchResults == ProcessBatch(runs[r].tasks)
     IN /\ runs' = [runs EXCEPT ![r] = AfterBatch(runs[r], batchResults)]
        /\ images' = MergeBatch(images, batchResults)
        /\ upload_progress' = BatchProgress(upload_progress, BatchIndex(runs[r]),
                                            runs[r].totalBatches,
                                            Len(runs[r].images))
  /\ UNCHANGED <<mode, search_state, searches, search, retry, trace, nextId, faulty, groupFaults, batchSize>>

\* `await processBatch(batch)` rejects: the catch branch of the loop.  The
\* rejection is taken at the point where the await would otherwise resume,
\* when every task of the group has settled.
BatchFaults(r) ==
  /\ runs[r].pc = "batch"
  /\ AllSettled(runs[r].tasks)
  /\ groupFaults < MaxGroupFaults
  /\ groupFaults' = groupFaults + 1
  /\ LET run2 == AfterBatchFault(runs[r], GroupError)
     IN /\ runs' = [runs EXCEPT ![r] = run2]
        /\ images' = MergeBatch(images, LastCallbackResults(run2))
        /\ upload_progress' = BatchProgress(upload_progress, BatchIndex(runs[r]),
                                            runs[r].totalBatches,
                                            Len(runs[r].images))
  /\ UNCHANGED <<mode, search_state, searches, search, retry, trace, nextId, faulty, batchSize>>

\* sleep(100) between two groups elapsed
InterBatchSleepElapses(r) ==
  /\ runs[r].pc = "sleep"
  /\ runs' = [runs EXCEPT ![r] = NextBatch(runs[r])]
  /\ UNCHANGED <<mode, search_state, searches, search, retry, trace, images, upload_progress, nextId, faulty, groupFaults,
                 batchSize>>

\* setTimeout(() => setState(... upload_progress: null), 1000) fires
ClearProgress(r) ==
  /\ runs[r].pc = "timer"
  /\ runs' = [runs EXCEPT ![r].pc = "done"]
  /\ upload_progress' = NULL
  /\ UNCHANGED <<mode, search_state, searches, search, retry, trace, images, nextId, faulty, groupFaults, batchSize>>

Init ==
  /\ retry = WithRetryStart(MAX_RETRIES, INITIAL_RETRY_DELAY)
  /\ trace = TraceStart
  /\ images = <<>>
  /\ upload_progress = NULL
  /\ runs = <<>>
  /\ nextId = 1
  /\ faulty = {}
  /\ groupFaults = 0
  /\ batchSize \in 1..MaxBatchSize
  /\ search = SearchIdle
  /\ search_state = InitialSearchState
  /\ searches = <<>>
  /\ mode = "upload"

TaskStep(r, k) ==
  \/ UploadResolves(r, k)
  \/ UploadRejects(r, k)
  \/ AnalyzeResolves(r, k)
  \/ AnalyzeRejects(r, k)
  \/ RetrySleepElapses(r, k)

Tasks(r) == 1..Len(runs[r].tasks)

Next ==
  \/ \E n \in 1..MaxImages : HandleFilesUploaded(n)
  \/ \E r \in 1..Len(runs) : \E k \in Tasks(r) : UploadResolves(r, k)
  \/ \E r \in 1..Len(runs) : \E k \in Tasks(r) : UploadRejects(r, k)
  \/ \E r \in 1..Len(runs) : \E k \in Tasks(r) : AnalyzeResolves(r, k)
  \/ \E r \in 1..Len(runs) : \E k \in Tasks(r) : AnalyzeRejects(r, k)
  \/ \E r \in 1..Len(runs) : \E k \in Tasks(r) : RetrySleepElapses(r, k)
  \/ \E r \in 1..Len(runs) : BatchSettles(r)
  \/ \E r \in 1..Len(runs) : BatchFaults(r)
  \/ \E r \in 1..Len(runs) : InterBatchSleepElapses(r)
  \/ \E r \in 1..Len(runs) : ClearProgress(r)

Spec == Init /\ [][Next]_vars

(***************************************************************************)
(* Specification SpecRun: one call of processImages (a single upload run), *)
(* over any number of images including none.  (In Spec the calls come from *)
(* the dropzone, which passes at least one file.)                          *)
(***************************************************************************)
FirstUpload(n) == Len(runs) = 0 /\ HandleFilesUploaded(n)

RunNext ==
  \/ \E n \in 0..MaxImages : FirstUpload(n)
  \/ \E r \in 1..Len(runs) : \E k \in Tasks(r) : UploadResolves(r, k)
  \/ \E r \in 1..Len(runs) : \E k \in Tasks(r) : UploadRejects(r, k)
  \/ \E r \in 1..Len(runs) : \E k \in Tasks(r) : AnalyzeResolves(r, k)
  \/ \E r \in 1..Len(runs) : \E k \in Tasks(r) : AnalyzeRejects(r, k)
  \/ \E r \in 1..Len(runs) : \E k \in Tasks(r) : RetrySleepElapses(r, k)
  \/ \E r \in 1..Len(runs) : BatchSettles(r)
  \/ \E r \in 1..Len(runs) : BatchFaults(r)
  \/ \E r \in 1..Len(runs) : InterBatchSleepElapses(r)
  \/ \E r \in 1..Len(runs) : ClearProgress(r)

SpecRun == Init /\ [][RunNext]_vars

(***************************************************************************)
(* Fairness: every remote call and every timer eventually settles, and a   *)
(* continuation that can run eventually runs.                              *)
(***************************************************************************)
FairTask(r, k) ==
  /\ r <= Len(runs)
  /\ k <= Len(runs[r].tasks)
  /\ TaskStep(r, k)

FairRun(r) ==
  /\ r <= Len(runs)
  /\ (BatchSettles(r) \/ InterBatchSleepElapses(r) \/ ClearProgress(r))

Fairness ==
  /\ \A r \in 1..MaxRuns : WF_vars(FairRun(r))
  /\ \A r \in 1..MaxRuns : \A k \in 1..MaxBatchSize : WF_vars(FairTask(r, k))

FairSpecRun == SpecRun /\ Fairness

Terminal(img) == img.processing_status \in {"completed", "error"}

GroupOf(run, k) == (k - 1) \div run.batchSize

ImageById(id) == images[CHOOSE k \in 1..Len(images) : images[k].id = id]

(***************************************************************************)
(* C1  Order preservation: at every moment the outcomes collected by       *)
(* processImagesInBatches are those of the first images of the input, in   *)
(* input order, and the returned list has exactly one outcome per input    *)
(* image: outcome i refers to input image i.                               *)
(***************************************************************************)
C1_OrderPreservation ==
  \A r \in 1..Len(runs) :
    /\ Len(runs[r].allResults) <= Len(runs[r].images)
    /\ \A k \in 1..Len(runs[r].allResults) :
         runs[r].allResults[k].image = runs[r].images[k]
    /\ runs[r].returned => Len(runs[r].allResults) = Len(runs[r].images)

C1_Witness ==
  \E r \in 1..Len(runs) :
    /\ runs[r].returned
    /\ Len(runs[r].images) = 3
    /\ runs[r].batchSize = 2
    /\ ~runs[r].allResults[1].success
    /\ runs[r].allResults[2].success
    /\ runs[r].allResults[3].success

(***************************************************************************)
(* C2  Failure isolation: in a group whose orchestration did not fault,    *)
(* every image none of whose calls failed gets a success outcome, whatever *)
(* happened to the other images of the group; a failure outcome is that of *)
(* an image whose own calls failed and carries the error of its own call;  *)
(* no image gets more than one outcome.                                    *)
(***************************************************************************)
C2_FailureIsolation ==
  \A r \in 1..Len(runs) :
    \A k \in 1..Len(runs[r].allResults) :
      LET o == runs[r].allResults[k]
      IN /\ (GroupOf(runs[r], k) \notin runs[r].faulted /\ o.image \notin faulty)
              => o.success
         /\ (GroupOf(runs[r], k) \notin runs[r].faulted /\ ~o.success)
              => o.error \in {"Failed to upload file", "Failed to analyze image"}
         /\ \A j \in 1..Len(runs[r].allResults) :
              j # k => runs[r].allResults[j].image # o.image

C2_Witness ==
  \E r \in 1..Len(runs) :
    /\ runs[r].returned
    /\ runs[r].faulted = {}
    /\ runs[r].batchSize = 2
    /\ Len(runs[r].allResults) >= 2
    /\ \E k \in {1, 2} :
         /\ ~runs[r].allResults[k].success
         /\ runs[r].allResults[3 - k].success
         /\ runs[r].allResults[3 - k].image \notin faulty

(***************************************************************************)
(* C3  processSingleImage never throws: its promise is never rejected, and *)
(* when a step has exhausted its retries the promise is fulfilled with a   *)
(* failure outcome carrying the same image and the message of the error.   *)
(***************************************************************************)
C3_NeverThrows ==
  \A r \in 1..Len(runs) :
    \A k \in 1..Len(runs[r].tasks) :
      LET t == runs[r].tasks[k]
      IN /\ t.promise # "rejected"
         /\ t.r.state = "thrown" =>
              /\ t.promise = "fulfilled"
              /\ ~t.value.success
              /\ t.value.image = t.image
              /\ t.value.error = t.r.thrown.text
              /\ t.value.error # UNDEFINED

C3_Witness ==
  \E r \in 1..Len(runs) :
    \E k \in 1..Len(runs[r].tasks) :
      LET t == runs[r].tasks[k]
      IN /\ t.r.state = "thrown"
         /\ t.r.attempt = MAX_RETRIES
         /\ t.promise = "fulfilled"
         /\ t.value.error = "Failed to analyze image"

(***************************************************************************)
(* C8  No regression: a record that is completed or error keeps its status *)
(* in every step, and no record is removed or moved.                       *)
(***************************************************************************)
C8_NoRegression ==
  [][/\ Len(images') >= Len(images)
     /\ \A k \in 1..Len(images) :
          /\ images'[k].id = images[k].id
          /\ Terminal(images[k]) =>
               images'[k].processing_status = images[k].processing_status]_vars

C8_Witness ==
  /\ Len(runs) = 2
  /\ \E k \in 1..Len(images) : images[k].processing_status = "completed"
  /\ \E k \in 1..Len(images) : images[k].processing_status = "error"
  /\ \E k \in 1..Len(images) : images[k].processing_status = "processing"

(***************************************************************************)
(* C9  Terminal well-formedness: a record that has left processing is      *)
(* either completed, with ocr_text and image_description strings and no    *)
(* error_message, or error with error_message set; error_message is set    *)
(* only on records in status error.                                        *)
(***************************************************************************)
C9_TerminalWellFormed ==
  \A k \in 1..Len(images) :
    LET img == images[k]
    IN /\ img.processing_status \in {"pending", "processing", "completed", "error"}
       /\ img.processing_status = "completed" =>
            /\ img.ocr_text # UNDEFINED
            /\ img.image_description # UNDEFINED
            /\ img.error_message = UNDEFINED
       /\ img.processing_status = "error" =>
            /\ img.error_message # UNDEFINED
            /\ img.error_message # ""
       /\ img.error_message # UNDEFINED => img.processing_status = "error"

C9_Witness ==
  /\ \E k \in 1..Len(images) :
       /\ images[k].processing_status = "completed"
       /\ images[k].ocr_text = ""
       /\ images[k].image_description = ""
  /\ \E k \in 1..Len(images) :
       /\ images[k].processing_status = "error"
       /\ images[k].error_message = "Failed to upload file"

(***************************************************************************)
(* C10  Every image passed to processImages eventually has status          *)
(* completed or error (every remote call and timer eventually settling),   *)
(* and once the run has ended none of its images is pending or processing. *)
(***************************************************************************)
C10_EventuallyTerminal ==
  /\ \A i \in 1..MaxImages :
       (Len(images) >= i) ~> (Len(images) >= i /\ Terminal(images[i]))
  /\ [](\A r \in 1..Len(runs) :
          runs[r].returned =>
            \A k \in 1..Len(runs[r].images) :
              Terminal(ImageById(runs[r].images[k])))

C10_Witness ==
  \E r \in 1..Len(runs) :
    /\ runs[r].returned
    /\ Len(runs[r].images) = 3
    /\ runs[r].totalBatches = 2
    /\ \A k \in 1..3 : Terminal(ImageById(runs[r].images[k]))
    /\ \E k \in 1..3 : ~runs[r].allResults[k].success

(***************************************************************************)
(* C11  An upload run always completes and never rejects: every remote     *)
(* call and timer eventually settling, the run returns; it reports at most *)
(* ceil(N / batchSize) groups, returns exactly when that many groups have  *)
(* been reported, and returns one outcome per input image, whatever mix of *)
(* per-image failures and group faults happened.                           *)
(***************************************************************************)
C11_RunCompletes ==
  /\ (Len(runs) >= 1) ~> (Len(runs) >= 1 /\ runs[1].returned)
  /\ [](\A r \in 1..Len(runs) :
          /\ runs[r].pc # "rejected"
          /\ runs[r].totalBatches = CeilDiv(Len(runs[r].images), runs[r].batchSize)
          /\ Len(runs[r].callbacks) <= runs[r].totalBatches
          /\ runs[r].returned <=> Len(runs[r].callbacks) = runs[r].totalBatches
          /\ runs[r].returned => Len(runs[r].allResults) = Len(runs[r].images))

C11_Witness ==
  \E r \in 1..Len(runs) :
    /\ runs[r].returned
    /\ Len(runs[r].images) = 3
    /\ runs[r].batchSize = 2
    /\ runs[r].faulted = {1}
    /\ ~runs[r].allResults[1].success
    /\ runs[r].allResults[2].success
    /\ runs[r].allResults[1].error = "Failed to upload file"

(***************************************************************************)
(* C12  onBatchComplete is called once per group, in increasing group      *)
(* index 0, 1, ..., with the outcomes of that group's images and with      *)
(* totalBatches = ceil(N / batchSize); the call for a group is made in a   *)
(* step taken when all tasks of the group have settled, and the tasks of   *)
(* group g are in flight only while exactly g calls have been made.        *)
(***************************************************************************)
C12_CallbackOrder ==
  /\ [](\A r \in 1..Len(runs) :
          LET run == runs[r]
              B   == run.batchSize
          IN /\ Len(run.callbacks) <= run.totalBatches
             /\ run.returned => Len(run.callbacks) = run.totalBatches
             /\ \A c \in 1..Len(run.callbacks) :
                  /\ run.callbacks[c].batchIndex = c - 1
                  /\ run.callbacks[c].totalBatches
                       = CeilDiv(Len(run.images), B)
                  /\ run.callbacks[c].count
                       = Len(Slice(run.images, (c - 1) * B, B))
                  /\ \A k \in 1..run.callbacks[c].count :
                       CallbackResults(run, c)[k].image
                         = run.images[(c - 1) * B + k]
             /\ run.pc = "batch" =>
                  /\ BatchIndex(run) = Len(run.callbacks)
                  /\ Len(run.tasks) = Len(Slice(run.images, run.i, B))
                  /\ \A k \in 1..Len(run.tasks) :
                       run.tasks[k].image = run.images[run.i + k]
             /\ run.pc # "batch" => run.tasks = <<>>)
  /\ [][\A r \in 1..Len(runs) :
          Len(runs'[r].callbacks) # Len(runs[r].callbacks) =>
            /\ Len(runs'[r].callbacks) = Len(runs[r].callbacks) + 1
            /\ runs[r].pc = "batch"
            /\ AllSettled(runs[r].tasks)]_vars

C12_Witness ==
  \E r \in 1..Len(runs) :
    /\ Len(runs[r].images) = 3
    /\ runs[r].batchSize = 1
    /\ Len(runs[r].callbacks) = 2
    /\ runs[r].pc = "batch"
    /\ runs[r].tasks[1].image = runs[r].images[3]
    /\ runs[r].tasks[1].promise = "pending"

(***************************************************************************)
(* C13  Group fault: when the orchestration of a group throws, every image *)
(* of that group gets a failure outcome carrying the message of the error, *)
(* the outcomes are reported through onBatchComplete under the group's     *)
(* index, and the run goes on with the next group: it returns only after   *)
(* every group has been reported.                                          *)
(***************************************************************************)
C13_GroupFault ==
  \A r \in 1..Len(runs) :
    \A g \in runs[r].faulted :
      LET run == runs[r]
          B   == run.batchSize
      IN /\ Len(run.callbacks) >= g + 1
         /\ run.callbacks[g + 1].batchIndex = g
         /\ run.callbacks[g + 1].count = Len(Slice(run.images, g * B, B))
         /\ \A k \in 1..run.callbacks[g + 1].count :
              LET o == CallbackResults(run, g + 1)[k]
              IN /\ ~o.success
                 /\ o.image = run.images[g * B + k]
                 /\ o.error = GroupError.text
         /\ g + 1 < run.totalBatches =>
              \/ Len(run.callbacks) > g + 1
              \/ /\ ~run.returned
                 /\ run.pc = "batch"
                 /\ BatchIndex(run) = g + 1
                 /\ Len(run.tasks) >= 1
         /\ run.returned => Len(run.callbacks) = run.totalBatches

C13_Witness ==
  \E r \in 1..Len(runs) :
    /\ runs[r].returned
    /\ Len(runs[r].images) = 3
    /\ runs[r].batchSize = 2
    /\ runs[r].faulted = {0}
    /\ ~runs[r].allResults[1].success
    /\ ~runs[r].allResults[2].success
    /\ runs[r].allResults[3].success
    /\ Len(runs[r].callbacks) = 2

(***************************************************************************)
(* searchImageBatch and searchImagesInBatches (the search partitioner).    *)
(* One activation of searchImagesInBatches is held in `search`:            *)
(*   query      the query string passed to the call                        *)
(*   images     ids of the corpus passed to the call                       *)
(*   variant    selects what the remote ranking answers to each group      *)
(*   groups     the searchImageBatch activations, one per group            *)
(*   settled    group indices (0-based) in the order their promises        *)
(*              settled                                                    *)
(*   callbacks  the calls of onBatchComplete so far                        *)
(*   calls      number of invocations of searchImages so far               *)
(*   faulty     groups whose ranking calls have failed                     *)
(*   pc  "idle" | "await" (at Promise.allSettled) | "returned" |           *)
(*       "rejected"                                                        *)
(* A similarity entry is [image_id, score, src]: score is in hundredths    *)
(* (90 stands for 0.90) and may be absent; src = <<group, position>> is    *)
(* the identity of the entry object (where the remote answer held it).     *)
(***************************************************************************)
MaxFaultyGroups == 1

Variants == 0..5

Queries == {"", "invoice"}

Entry(id, score, g, pos) == [image_id |-> id, score |-> score, src |-> <<g, pos>>]

\* What searchImages resolves with for group g (0-based) holding `batch`,
\* of a call over `corpus`.  Consecutive groups get consecutive kinds.
SearchReply(variant, g, batch, corpus) ==
  LET kind == (variant + g) % Cardinality(Variants)
  IN CASE kind = 0 -> [similarities |-> <<>>]
       [] kind = 1 -> [similarities |-> <<Entry(batch[1], 90, g, 1)>>]
       [] kind = 2 -> [similarities |-> <<Entry(batch[1], 20, g, 1),
                                          Entry(Last(batch), 90, g, 2)>>]
       [] kind = 3 -> [similarities |-> <<Entry(corpus[1], 90, g, 1),
                                          Entry(batch[1], 90, g, 2)>>]
       [] kind = 4 -> [similarities |-> UNDEFINED]
       [] kind = 5 -> [similarities |-> <<[image_id |-> batch[1], src |-> <<g, 1>>],
                                          Entry(Last(batch), 20, g, 2)>>]

SearchError(n) == ErrorObj("Search failed: Unknown error", n)

\* `result.similarities || []`
OrEmptyList(x) == IF x = UNDEFINED THEN <<>> ELSE x

\* `e.score || 0`
ScoreOrZero(e) == IF "score" \in DOMAIN e THEN e.score ELSE 0

SearchImageBatchStart(batch) ==
  [batch |-> batch, r |-> WithRetryStart(MAX_RETRIES, INITIAL_RETRY_DELAY),
   promise |-> "pending", value |-> NULL]

\* searchImages resolved: return { similarities: result.similarities || [] }
SearchImageBatchResolve(t, reply) ==
  [t EXCEPT !.r = WithRetryResolve(t.r, reply), !.promise = "fulfilled",
            !.value = [similarities |-> OrEmptyList(reply.similarities)]]

\* searchImages rejected; after the last attempt the catch branch returns
\* { similarities: [] }
SearchImageBatchReject(t, e) ==
  LET r2 == WithRetryReject(t.r, e)
      t2 == [t EXCEPT !.r = r2]
  IN IF r2.state = "thrown"
       THEN [t2 EXCEPT !.promise = "fulfilled", !.value = [similarities |-> <<>>]]
       ELSE t2

SearchImageBatchWake(t) == [t EXCEPT !.r = WithRetryWake(t.r)]

\* Variant: the results are taken in the order the promises settled.
AllSettledInSettleOrder(groups, settled) ==
  [k \in 1..Len(settled) |-> groups[settled[k] + 1]]

\* Promise.allSettled(batchPromises): one result per promise, in the order
\* of the promises, whatever the order in which they settled.
AllSettledResults(groups, settled) == groups

\* the payload the forEach takes from one settled result
SettledSimilarities(t) ==
  IF t.promise = "fulfilled" THEN t.value.similarities ELSE <<>>

RECURSIVE ConcatSimilarities(_, _)
\* allSimilarities.push(...result.value.similarities), results 1..n
ConcatSimilarities(batchResults, n) ==
  IF n = 0 THEN <<>>
  ELSE ConcatSimilarities(batchResults, n - 1) \o SettledSimilarities(batchResults[n])

\* Variant: onBatchComplete is skipped for a group without entries.
SearchCallbacksSkipEmpty(batchResults, totalBatches) ==
  SelectSeq([k \in 1..Len(batchResults) |->
               [similarities |-> SettledSimilarities(batchResults[k]),
                batchIndex |-> k - 1, totalBatches |-> totalBatches]],
            LAMBDA c : c.similarities # <<>>)

\* the onBatchComplete calls made by the forEach
SearchCallbacks(batchResults, totalBatches) ==
  [k \in 1..Len(batchResults) |->
     [similarities |-> SettledSimilarities(batchResults[k]),
      batchIndex |-> k - 1, totalBatches |-> totalBatches]]

RECURSIVE InsertByScore(_, _)
\* e goes behind every entry that does not compare after it
InsertByScore(sorted, e) ==
  IF sorted = <<>> THEN <<e>>
  ELSE IF ScoreOrZero(e) - ScoreOrZero(Head(sorted)) <= 0
         THEN <<Head(sorted)>> \o InsertByScore(Tail(sorted), e)
         ELSE <<e>> \o sorted

RECURSIVE SortPrefix(_, _)
SortPrefix(s, n) ==
  IF n = 0 THEN <<>> ELSE InsertByScore(SortPrefix(s, n - 1), s[n])

\* Variant: the merged list is returned as concatenated.
SortByScoreNone(s) == s

\* allSimilarities.sort((a, b) => (b.score || 0) - (a.score || 0)), stable
SortByScore(s) == SortPrefix(s, Len(s))

\* Variant: no early return for an empty corpus; the call goes on to
\* Promise.allSettled over zero promises.
SearchStartNoGuard(query, ids, b, variant) ==
  [pc |-> "await", query |-> query, images |-> ids, batchSize |-> b, variant |-> variant,
   totalBatches |-> CeilDiv(Len(ids), b),
   groups |-> [g \in 1..CeilDiv(Len(ids), b) |->
                 SearchImageBatchStart(Slice(ids, (g - 1) * b, b))],
   settled |-> <<>>, callbacks |-> <<>>, result |-> NULL,
   calls |-> CeilDiv(Len(ids), b), faulty |-> {}]

\* searchImagesInBatches(query, images, onBatchComplete, batchSize) up to
\* its first await: every group's first ranking call has been issued.
\* Variant: only the call of the first group is launched before the await.
SearchStartFirstOnly(query, ids, b, variant) ==
  IF Len(ids) = 0
    THEN [pc |-> "returned", query |-> query, images |-> ids, batchSize |-> b, variant |-> variant,
          totalBatches |-> 0, groups |-> <<>>, settled |-> <<>>,
          callbacks |-> <<>>, result |-> <<>>, calls |-> 0, faulty |-> {}]
    ELSE [pc |-> "await", query |-> query, images |-> ids, batchSize |-> b, variant |-> variant,
          totalBatches |-> CeilDiv(Len(ids), b),
          groups |-> <<SearchImageBatchStart(Slice(ids, 0, b))>>,
          settled |-> <<>>, callbacks |-> <<>>, result |-> NULL,
          calls |-> 1, faulty |-> {}]

SearchStart(query, ids, b, variant) ==
  IF Len(ids) = 0
    THEN [pc |-> "returned", query |-> query, images |-> ids, batchSize |-> b, variant |-> variant,
          totalBatches |-> 0, groups |-> <<>>, settled |-> <<>>,
          callbacks |-> <<>>, result |-> <<>>, calls |-> 0, faulty |-> {}]
    ELSE [pc |-> "await", query |-> query, images |-> ids, batchSize |-> b, variant |-> variant,
          totalBatches |-> CeilDiv(Len(ids), b),
          groups |-> [g \in 1..CeilDiv(Len(ids), b) |->
                        SearchImageBatchStart(Slice(ids, (g - 1) * b, b))],
          settled |-> <<>>, callbacks |-> <<>>, result |-> NULL,
          calls |-> CeilDiv(Len(ids), b), faulty |-> {}]

\* Variant: Promise.all without a catch in searchImageBatch: a group that
\* exhausted its retries rejects the whole search.
SearchFinishFailFast(s) ==
  LET batchResults == AllSettledResults(s.groups, s.settled)
  IN IF \E g \in 1..Len(s.groups) : s.groups[g].r.state = "thrown"
       THEN [s EXCEPT !.pc = "rejected"]
       ELSE [s EXCEPT
               !.pc = "returned",
               !.callbacks = SearchCallbacks(batchResults, s.totalBatches),
               !.result = SortByScore(ConcatSimilarities(batchResults,
                                                         Len(batchResults)))]

\* the continuation of `await Promise.allSettled(batchPromises)`: forEach,
\* sort, return
SearchFinish(s) ==
  LET batchResults == AllSettledResults(s.groups, s.settled)
  IN [s EXCEPT
        !.pc = "returned",
        !.callbacks = SearchCallbacks(batchResults, s.totalBatches),
        !.result = SortByScore(ConcatSimilarities(batchResults,
                                                  Len(batchResults)))]

\* a group's settled promise is noted in the settle order
\* Variant: the callback of a group is invoked as soon as the group settles.
NoteSettledWithCallback(s, g) ==
  IF s.groups[g].promise # "pending"
    THEN [s EXCEPT !.settled = Append(@, g - 1),
                   !.callbacks = Append(@, [similarities |-> s.groups[g].value.similarities,
                                            batchIndex |-> g - 1,
                                            totalBatches |-> s.totalBatches])]
    ELSE s

NoteSettled(s, g) ==
  IF s.groups[g].promise # "pending" THEN [s EXCEPT !.settled = Append(@, g - 1)]
                                     ELSE s

\* every variable that searchImagesInBatches leaves alone
uploadVars == <<retry, trace, images, upload_progress, runs, nextId, faulty,
               groupFaults, batchSize, search_state, searches, mode>>

\* The ranking calls of a group may fail when the group is one of the (at
\* most MaxFaultyGroups) groups whose calls fail.
MaySearchFail(g) ==
  g \in search.faulty \/ Cardinality(search.faulty) < MaxFaultyGroups

\* searchImagesInBatches is called with a corpus of n images
SearchImagesInBatches(query, n, b, variant) ==
  /\ search.pc = "idle"
  /\ search' = SearchStart(query, [k \in 1..n |-> k], b, variant)
  /\ UNCHANGED uploadVars

SearchCallResolves(g) ==
  /\ search.pc = "await"
  /\ search.groups[g].promise = "pending"
  /\ search.groups[g].r.state = "calling"
  /\ LET reply == SearchReply(search.variant, g - 1, search.groups[g].batch,
                              search.images)
         s2 == [search EXCEPT
                  !.groups[g] = SearchImageBatchResolve(search.groups[g], reply)]
     IN search' = NoteSettled(s2, g)
  /\ UNCHANGED uploadVars

SearchCallRejects(g) ==
  /\ search.pc = "await"
  /\ search.groups[g].promise = "pending"
  /\ search.groups[g].r.state = "calling"
  /\ MaySearchFail(g)
  /\ LET s2 == [search EXCEPT
                  !.groups[g] = SearchImageBatchReject(
                                  search.groups[g],
                                  SearchError(search.groups[g].r.attempt + 1)),
                  !.faulty = @ \cup {g}]
     IN search' = NoteSettled(s2, g)
  /\ UNCHANGED uploadVars

SearchSleepElapses(g) ==
  /\ search.pc = "await"
  /\ search.groups[g].promise = "pending"
  /\ search.groups[g].r.state = "sleeping"
  /\ search' = [search EXCEPT !.groups[g] = SearchImageBatchWake(search.groups[g]),
                              !.calls = @ + 1]
  /\ UNCHANGED uploadVars

\* every promise has settled: the await resumes
SearchSettles ==
  /\ search.pc = "await"
  /\ \A g \in 1..Len(search.groups) : search.groups[g].promise # "pending"
  /\ search' = SearchFinish(search)
  /\ UNCHANGED uploadVars

SearchInit ==
  /\ retry = WithRetryStart(MAX_RETRIES, INITIAL_RETRY_DELAY)
  /\ trace = TraceStart
  /\ AppInit

SearchGroups == IF search.pc = "await" THEN 1..Len(search.groups) ELSE {}

SearchNext ==
  \/ \E q \in Queries, n \in 0..MaxImages, b \in 1..MaxBatchSize, v \in Variants :
       SearchImagesInBatches(q, n, b, v)
  \/ \E g \in SearchGroups : SearchCallResolves(g)
  \/ \E g \in SearchGroups : SearchCallRejects(g)
  \/ \E g \in SearchGroups : SearchSleepElapses(g)
  \/ SearchSettles

SpecSearch == SearchInit /\ [][SearchNext]_vars

\* a precedes b in lexicographic order of <<group, position>>
SrcBefore(a, b) ==
  \/ a.src[1] < b.src[1]
  \/ a.src[1] = b.src[1] /\ a.src[2] < b.src[2]

\* what group g (1-based) of the call was answered, when its call succeeded
Answered(g) ==
  IF search.groups[g].r.state = "returned"
    THEN OrEmptyList(search.groups[g].r.value.similarities)
    ELSE <<>>

(***************************************************************************)
(* C14  Empty corpus: a call of searchImagesInBatches with no images has   *)
(* returned {similarities: []} as soon as it is made, for any query, has   *)
(* issued no remote call and has made no onBatchComplete call.             *)
(***************************************************************************)
C14_EmptyCorpus ==
  (search.pc # "idle" /\ Len(search.images) = 0) =>
     /\ search.pc = "returned"
     /\ search.result = <<>>
     /\ search.calls = 0
     /\ search.groups = <<>>
     /\ search.callbacks = <<>>

C14_Witness ==
  /\ search.pc = "returned"
  /\ Len(search.images) = 0
  /\ search.query = "invoice"
  /\ search.result = <<>>

(***************************************************************************)
(* C15  Partition fault tolerance: the search never rejects; a group whose *)
(* ranking call failed on every attempt is fulfilled with an empty list    *)
(* and has no entry in the result, every entry answered to another group   *)
(* is in the result, and the result is in descending order of score.       *)
(***************************************************************************)
C15_PartitionFaultTolerance ==
  /\ search.pc # "rejected"
  /\ search.pc \in {"await", "returned"} =>
       \A g \in 1..Len(search.groups) :
         /\ search.groups[g].promise # "rejected"
         /\ search.groups[g].r.state = "thrown" =>
              /\ search.groups[g].promise = "fulfilled"
              /\ search.groups[g].value = [similarities |-> <<>>]
  /\ search.pc = "returned" =>
       /\ \A g \in 1..Len(search.groups) :
            /\ search.groups[g].r.state = "thrown" =>
                 \A j \in 1..Len(search.result) : search.result[j].src[1] # g - 1
            /\ search.groups[g].r.state = "returned" =>
                 \A k \in 1..Len(Answered(g)) :
                   \E j \in 1..Len(search.result) :
                     search.result[j] = Answered(g)[k]
       /\ \A i, j \in 1..Len(search.result) :
            i < j => ScoreOrZero(search.result[i]) >= ScoreOrZero(search.result[j])

C15_Witness ==
  /\ search.pc = "returned"
  /\ Len(search.groups) = 3
  /\ search.groups[2].r.state = "thrown"
  /\ search.groups[2].r.attempt = MAX_RETRIES
  /\ Len(Answered(1)) = 1
  /\ Len(Answered(3)) = 2
  /\ Len(search.result) = 3

(***************************************************************************)
(* C16  The returned list is in descending order of score (an absent score *)
(* counting as 0), whether or not the groups' lists arrive sorted, and     *)
(* entries of equal score keep the order in which they were first seen:    *)
(* lower group index first, and within a group the order of its answer.    *)
(***************************************************************************)
C16_SortedStable ==
  search.pc = "returned" =>
    \A i, j \in 1..Len(search.result) :
      i < j =>
        /\ ScoreOrZero(search.result[i]) >= ScoreOrZero(search.result[j])
        /\ ScoreOrZero(search.result[i]) = ScoreOrZero(search.result[j]) =>
             SrcBefore(search.result[i], search.result[j])

C16_Witness ==
  /\ search.pc = "returned"
  /\ Len(search.groups) >= 2
  /\ Len(Answered(1)) = 2
  /\ ScoreOrZero(Answered(1)[1]) < ScoreOrZero(Answered(1)[2])
  /\ \E i, j \in 1..Len(search.result) :
       /\ i < j
       /\ ScoreOrZero(search.result[i]) = ScoreOrZero(search.result[j])
       /\ search.result[i].src[1] < search.result[j].src[1]

(***************************************************************************)
(* C17  Uniqueness: the returned list holds at most one entry per image    *)
(* id.                                                                     *)
(***************************************************************************)
C17_UniqueIds ==
  search.pc = "returned" =>
    \A i, j \in 1..Len(search.result) :
      i # j => search.result[i].image_id # search.result[j].image_id

(***************************************************************************)
(* C18  Ranking determinism: the returned list is fixed by what was        *)
(* answered to each group, whatever the order in which the group calls     *)
(* settled: it holds exactly the entries answered to the groups, each      *)
(* once, ordered by score and, among equal scores, by group index and then *)
(* by position in the group's answer.                                      *)
(***************************************************************************)
C18_Deterministic ==
  search.pc = "returned" =>
    /\ \A g \in 1..Len(search.groups) :
         search.groups[g].r.state = "returned" =>
           \A k \in 1..Len(Answered(g)) :
             Cardinality({j \in 1..Len(search.result) :
                            search.result[j] = Answered(g)[k]}) = 1
    /\ \A j \in 1..Len(search.result) :
         LET g == search.result[j].src[1] + 1
         IN /\ g \in 1..Len(search.groups)
            /\ search.groups[g].r.state = "returned"
            /\ search.result[j].src[2] \in 1..Len(Answered(g))
            /\ search.result[j] = Answered(g)[search.result[j].src[2]]
    /\ \A i, j \in 1..Len(search.result) :
         i < j =>
           \/ ScoreOrZero(search.result[i]) > ScoreOrZero(search.result[j])
           \/ /\ ScoreOrZero(search.result[i]) = ScoreOrZero(search.result[j])
              /\ SrcBefore(search.result[i], search.result[j])

C18_Witness ==
  /\ search.pc = "returned"
  /\ search.settled = <<2, 1, 0>>
  /\ \E i, j \in 1..Len(search.result) :
       /\ i < j
       /\ ScoreOrZero(search.result[i]) = ScoreOrZero(search.result[j])
       /\ search.result[i].src[1] = 0
       /\ search.result[j].src[1] = 2

(***************************************************************************)
(* C19  Search progress callbacks: when a search over a non-empty corpus   *)
(* has returned, onBatchComplete has been called exactly once per group,   *)
(* for group indices 0 .. ceil(N / batchSize) - 1, with totalBatches =     *)
(* ceil(N / batchSize) and that group's list; a group whose call failed on *)
(* every attempt is reported with an empty list.                           *)
(***************************************************************************)
C19_SearchCallbacks ==
  (search.pc = "returned" /\ Len(search.images) > 0) =>
     /\ Len(search.callbacks) = CeilDiv(Len(search.images), search.batchSize)
     /\ \A c \in 1..Len(search.callbacks) :
          /\ search.callbacks[c].batchIndex = c - 1
          /\ search.callbacks[c].totalBatches
               = CeilDiv(Len(search.images), search.batchSize)
          /\ search.groups[c].r.state = "returned" =>
               search.callbacks[c].similarities = Answered(c)
          /\ search.groups[c].r.state = "thrown" =>
               search.callbacks[c].similarities = <<>>

C19_Witness ==
  /\ search.pc = "returned"
  /\ Len(search.images) = 3
  /\ search.batchSize = 2
  /\ Len(search.callbacks) = 2
  /\ search.groups[1].r.state = "thrown"
  /\ search.callbacks[1].similarities = <<>>
  /\ search.callbacks[1].batchIndex = 0
  /\ Len(search.callbacks[2].similarities) >= 1

(***************************************************************************)
(* C20  Merge idempotence: whenever the outcome of a group is applied to   *)
(* the application state (through the try branch or the catch branch of    *)
(* the run), applying the same outcome with the same batchIndex and        *)
(* totalBatches once more to the resulting state leaves the image records  *)
(* and upload_progress as they are: twice gives the same as once.          *)
(***************************************************************************)
C20_MergeIdempotent ==
  [][\A r \in 1..Len(runs) :
       Len(runs'[r].callbacks) > Len(runs[r].callbacks) =>
         LET cb == Last(runs'[r].callbacks)
         IN /\ MergeBatch(images', LastCallbackResults(runs'[r])) = images'
            /\ BatchProgress(upload_progress', cb.batchIndex, cb.totalBatches,
                             Len(runs[r].images)) = upload_progress']_vars

C20_Witness ==
  \E r \in 1..Len(runs) :
    /\ runs[r].pc = "sleep"
    /\ upload_progress = NULL
    /\ Len(runs[r].callbacks) = 1
    /\ ~LastCallbackResults(runs[r])[1].success
    /\ \E k \in 1..Len(images) : images[k].processing_status = "completed"

\* the ids of the images the outcomes of a batch refer to
OutcomeIds(batchResults) == {batchResults[k].image : k \in 1..Len(batchResults)}

(***************************************************************************)
(* C21  Aggregator frame: in a step that merges the outcomes of a batch,   *)
(* the collection keeps its length and the order of its ids, and every     *)
(* record whose id matches no outcome of the batch is unchanged in every   *)
(* field.                                                                  *)
(***************************************************************************)
C21_AggregatorFrame ==
  [][\A r \in 1..Len(runs) :
       Len(runs'[r].callbacks) > Len(runs[r].callbacks) =>
         /\ Len(images') = Len(images)
         /\ \A k \in 1..Len(images) :
              /\ images'[k].id = images[k].id
              /\ images[k].id \notin OutcomeIds(LastCallbackResults(runs'[r]))
                   => images'[k] = images[k]]_vars

C21_Witness ==
  \E r \in 1..Len(runs) :
    /\ Len(runs[r].callbacks) = 2
    /\ Len(runs[r].images) = 3
    /\ runs[r].batchSize = 1
    /\ images[1].processing_status = "error"
    /\ images[2].processing_status = "completed"
    /\ images[3].processing_status = "processing"

(***************************************************************************)
(* C25  No lost updates: at every moment, whatever the order in which the  *)
(* callbacks of the groups of one run and of overlapping runs have been    *)
(* applied, the record of every image whose outcome has been reported      *)
(* holds the status and fields of its own outcome, and the record of an    *)
(* image of a run whose outcome has not been reported is still processing. *)
(***************************************************************************)
C25_NoLostUpdates ==
  \A r \in 1..Len(runs) :
    \A k \in 1..Len(runs[r].images) :
      LET id == runs[r].images[k]
          before == [NewImage(id) EXCEPT !.processing_status = "processing"]
      IN IF k <= Len(runs[r].allResults)
           THEN ImageById(id) = MergeResult(before, runs[r].allResults[k])
           ELSE ImageById(id) = before

C25_Witness ==
  /\ Len(runs) = 2
  /\ runs[1].returned
  /\ runs[2].returned
  /\ Len(runs[1].callbacks) = 2
  /\ Len(images) = 3
  /\ images[1].processing_status = "completed"
  /\ images[2].processing_status = "error"
  /\ images[3].processing_status = "completed"

(***************************************************************************)
(* C22  Whenever upload_progress is set (for a non-empty upload),          *)
(* percentage = round(100 * completed / total) and 0 <= percentage <= 100. *)
(***************************************************************************)
C22_PercentageFromCompleted ==
  (upload_progress # NULL /\ upload_progress.total > 0) =>
     /\ upload_progress.percentage
          = RoundPercent(upload_progress.completed, upload_progress.total)
     /\ upload_progress.percentage \in 0..100

(***************************************************************************)
(* C23  Progress derives from the batch size of the run: while the         *)
(* progress of a run is shown and c >= 1 of its groups have been reported, *)
(* completed = min(c * batchSize, N), the number of outcomes reported so   *)
(* far; after the last group completed = total and percentage = 100.       *)
(***************************************************************************)
C23_ProgressFromBatchSize ==
  \A r \in 1..Len(runs) :
    (upload_progress # NULL /\ Len(runs) = 1 /\ Len(runs[r].callbacks) >= 1) =>
       /\ upload_progress.completed
            = Min(Len(runs[r].callbacks) * runs[r].batchSize, Len(runs[r].images))
       /\ upload_progress.completed = Len(runs[r].allResults)
       /\ runs[r].returned =>
            /\ upload_progress.completed = upload_progress.total
            /\ upload_progress.percentage = 100

(***************************************************************************)
(* C24  Empty upload: a run over zero images has returned as soon as it is *)
(* called, with an empty outcome list; it has zero groups, no task (so no  *)
(* remote call), no onBatchComplete call and no delay, at any later moment *)
(* too.                                                                    *)
(***************************************************************************)
C24_EmptyUpload ==
  \A r \in 1..Len(runs) :
    Len(runs[r].images) = 0 =>
      /\ runs[r].returned
      /\ runs[r].pc \in {"timer", "done"}
      /\ runs[r].totalBatches = 0
      /\ runs[r].tasks = <<>>
      /\ runs[r].allResults = <<>>
      /\ runs[r].callbacks = <<>>
      /\ runs[r].sleeps = <<>>
      /\ runs[r].faulted = {}

C24_Witness ==
  \E r \in 1..Len(runs) :
    /\ Len(runs[r].images) = 0
    /\ runs[r].pc = "done"
    /\ runs[r].returned
    /\ upload_progress = NULL

(***************************************************************************)
(* C27  Per-image pipeline order.  For every task of processSingleImage:   *)
(* while it uploads it holds no file reference; it is in the analyze step  *)
(* only with the reference the upload returned for its image; a task that  *)
(* ended without a reference ended by exhausting the retries of the upload *)
(* and reports the upload error; the outcome is success:true exactly when  *)
(* the upload and then the analyze call returned, and it then carries that *)
(* reference and the fields of the analysis.  The analyze step is entered  *)
(* only by the step in which a pending upload attempt resolves.            *)
(***************************************************************************)
C27_TaskOrder(t) ==
  /\ t.step = "upload" =>
       /\ t.geminiFileUri = UNDEFINED
       /\ t.promise = "pending"
  /\ t.step = "analyze" =>
       /\ t.geminiFileUri = FileUri(t.image)
       /\ t.promise = "pending"
  /\ t.step = "done" =>
       /\ t.promise = "fulfilled"
       /\ t.value.image = t.image
       /\ t.value.success <=>
            (t.geminiFileUri = FileUri(t.image) /\ t.r.state = "returned")
       /\ t.value.success =>
            /\ t.value.geminiFileUri = FileUri(t.image)
            /\ t.value.ocrText = AnalysisReply(t.image).ocr_text
            /\ t.value.imageDescription = AnalysisReply(t.image).image_description
       /\ (~t.value.success /\ t.geminiFileUri = UNDEFINED) =>
            /\ t.r.state = "thrown"
            /\ t.r.attempt = MAX_RETRIES
            /\ t.value.error = "Failed to upload file"
       /\ (~t.value.success /\ t.geminiFileUri # UNDEFINED) =>
            /\ t.r.state = "thrown"
            /\ t.r.attempt = MAX_RETRIES
            /\ t.value.error = "Failed to analyze image"

C27_PipelineOrder ==
  /\ [](\A r \in 1..Len(runs) : \A k \in 1..Len(runs[r].tasks) :
          C27_TaskOrder(runs[r].tasks[k]))
  /\ [][\A r \in 1..Len(runs) : \A k \in 1..Len(runs[r].tasks) :
          (/\ Len(runs'[r].tasks) = Len(runs[r].tasks)
           /\ runs'[r].tasks[k].image = runs[r].tasks[k].image
           /\ runs'[r].tasks[k].step = "analyze"
           /\ runs[r].tasks[k].step # "analyze")
          => /\ runs[r].tasks[k].step = "upload"
             /\ runs[r].tasks[k].r.state = "calling"
             /\ runs'[r].tasks[k].r.attempt = 0
             /\ runs'[r].tasks[k].r.state = "calling"]_vars

\* One group holds a task that succeeded and a task whose upload exhausted
\* its retries.
C27_Witness ==
  \E r \in 1..Len(runs) : \E j, k \in 1..Len(runs[r].tasks) :
    /\ runs[r].tasks[j].step = "done"
    /\ runs[r].tasks[j].value.success
    /\ runs[r].tasks[k].step = "done"
    /\ ~runs[r].tasks[k].value.success
    /\ runs[r].tasks[k].geminiFileUri = UNDEFINED

(***************************************************************************)
(* C28  Upload groups are strictly sequential.  The tasks in flight of a   *)
(* run are those of one group only, the group at offset i, and the         *)
(* outcomes of all images before that offset are already recorded; the     *)
(* run moves to the next offset (where the first calls of the next group   *)
(* are issued) only from a state in which every task of the current group  *)
(* has settled.                                                            *)
(***************************************************************************)
TaskImages(run) == [k \in 1..Len(run.tasks) |-> run.tasks[k].image]

C28_SequentialGroups ==
  /\ [](\A r \in 1..Len(runs) :
          /\ runs[r].pc = "batch" =>
               /\ TaskImages(runs[r]) =
                    Slice(runs[r].images, runs[r].i, runs[r].batchSize)
               /\ Len(runs[r].allResults) = runs[r].i
               /\ \A k \in 1..runs[r].i :
                    runs[r].allResults[k].image = runs[r].images[k]
          /\ runs[r].pc # "batch" => runs[r].tasks = <<>>)
  /\ [][\A r \in 1..Len(runs) :
          runs'[r].i # runs[r].i =>
            /\ runs'[r].i = runs[r].i + runs[r].batchSize
            /\ \/ runs[r].pc = "sleep" /\ runs[r].tasks = <<>>
               \/ runs[r].pc = "batch" /\ AllSettled(runs[r].tasks)
            /\ Len(runs'[r].allResults) = Min(runs'[r].i, Len(runs[r].images))
            /\ \A k \in 1..Len(runs'[r].tasks) :
                 runs'[r].tasks[k] =
                   ProcessSingleImageStart(runs[r].images[runs'[r].i + k])]_vars

\* The second group of a run is in flight, with a call pending, after a
\* first group of two images of which one failed.
C28_Witness ==
  \E r \in 1..Len(runs) :
    /\ runs[r].pc = "batch"
    /\ runs[r].batchSize = 2
    /\ runs[r].i = 2
    /\ Len(runs[r].tasks) = 1
    /\ runs[r].tasks[1].r.state = "calling"
    /\ \E k \in 1..2 : ~runs[r].allResults[k].success

(***************************************************************************)
(* C30  The search partitioner launches the ranking calls of all groups    *)
(* before it waits for any: in the step that takes searchImagesInBatches   *)
(* to its await, every one of the ceil(N / B) groups has its first attempt *)
(* issued and pending, one call per group has been made and nothing has    *)
(* settled; while it waits, a group never has fewer than one call issued.  *)
(***************************************************************************)
C30_AllLaunchedBeforeAwait ==
  /\ [](search.pc = "await" =>
          /\ Len(search.groups) = CeilDiv(Len(search.images), search.batchSize)
          /\ search.calls >= Len(search.groups)
          /\ \A g \in 1..Len(search.groups) :
               search.groups[g].promise = "pending" =>
                 search.groups[g].r.state \in {"calling", "sleeping"})
  /\ [][(search.pc = "idle" /\ search'.pc = "await") =>
          /\ Len(search'.groups) =
               CeilDiv(Len(search'.images), search'.batchSize)
          /\ search'.calls = Len(search'.groups)
          /\ search'.settled = <<>>
          /\ \A g \in 1..Len(search'.groups) :
               /\ search'.groups[g].promise = "pending"
               /\ search'.groups[g].r.state = "calling"
               /\ search'.groups[g].r.attempt = 0]_vars

\* Three groups are in flight at the same time: the first waits for its
\* retry, the others for the answer to their first attempt.
C30_Witness ==
  /\ search.pc = "await"
  /\ Len(search.groups) = 3
  /\ search.settled = <<>>
  /\ search.groups[1].r.state = "sleeping"
  /\ \A g \in 2..3 : /\ search.groups[g].promise = "pending"
                     /\ search.groups[g].r.state = "calling"
                     /\ search.groups[g].r.attempt = 0

(***************************************************************************)
(* Specification SpecPartition: one upload run over N images in groups of  *)
(* B and, once a run in which no call failed is over, one call of          *)
(* searchImagesInBatches over the same N images with the same B.           *)
(***************************************************************************)
RunOver ==
  /\ Len(runs) = 1
  /\ runs[1].pc = "done"
  /\ faulty = {}
  /\ groupFaults = 0

SearchAfterRun(query, variant) ==
  /\ RunOver
  /\ SearchImagesInBatches(query, Len(runs[1].images), runs[1].batchSize, variant)

PartitionNext ==
  \/ \E n \in 0..MaxImages : FirstUpload(n)
  \/ \E r \in 1..Len(runs) : \E k \in Tasks(r) : UploadResolves(r, k)
  \/ \E r \in 1..Len(runs) : \E k \in Tasks(r) : UploadRejects(r, k)
  \/ \E r \in 1..Len(runs) : \E k \in Tasks(r) : AnalyzeResolves(r, k)
  \/ \E r \in 1..Len(runs) : \E k \in Tasks(r) : AnalyzeRejects(r, k)
  \/ \E r \in 1..Len(runs) : \E k \in Tasks(r) : RetrySleepElapses(r, k)
  \/ \E r \in 1..Len(runs) : BatchSettles(r)
  \/ \E r \in 1..Len(runs) : BatchFaults(r)
  \/ \E r \in 1..Len(runs) : InterBatchSleepElapses(r)
  \/ \E r \in 1..Len(runs) : ClearProgress(r)
  \/ \E q \in Queries, v \in Variants : SearchAfterRun(q, v)
  \/ \E g \in SearchGroups : SearchCallResolves(g)
  \/ \E g \in SearchGroups : SearchCallRejects(g)
  \/ \E g \in SearchGroups : SearchSleepElapses(g)
  \/ SearchSettles

SpecPartition == Init /\ [][PartitionNext]_vars

(***************************************************************************)
(* C29  Partitioning.  For N images and batch size B, the upload scheduler *)
(* and the search partitioner both form ceil(N / B) contiguous groups in   *)
(* input order: group g (counted from 1) holds the images at positions     *)
(* (g - 1) * B + 1 .. min(g * B, N), so every group but the last has       *)
(* exactly B images, the last has between 1 and B, and every image is in   *)
(* exactly one group.                                                      *)
(***************************************************************************)
\* the positions of group g among n images in groups of b
GroupPositions(g, b, n) == ((g - 1) * b + 1)..Min(g * b, n)

\* the groups of a partition of n images, given the size of each group and
\* the image at each place of each group
IsPartition(ids, b, numGroups, size, member(_, _)) ==
  LET n == Len(ids)
  IN /\ numGroups = CeilDiv(n, b)
     /\ \A g \in 1..numGroups :
          /\ size[g] = Cardinality(GroupPositions(g, b, n))
          /\ size[g] \in 1..b
          /\ g < numGroups => size[g] = b
          /\ \A j \in 1..size[g] : member(g, j) = ids[(g - 1) * b + j]
     /\ \A k \in 1..n :
          Cardinality({gj \in {<<g, j>> : g \in 1..numGroups, j \in 1..b} :
                         /\ gj[2] <= size[gj[1]]
                         /\ member(gj[1], gj[2]) = ids[k]}) = 1

\* upload: the groups a run has handled so far are a prefix of the
\* partition, the group in flight is the next one, and a run that has
\* returned has handled all of them
UploadPartition(run) ==
  LET n == Len(run.images)
      b == run.batchSize
      done == Len(run.callbacks)
      size == [g \in 1..done |-> run.callbacks[g].count]
      member(g, j) == run.allResults[run.callbacks[g].first + j - 1].image
  IN /\ run.totalBatches = CeilDiv(n, b)
     /\ done <= run.totalBatches
     /\ IsPartition(SubSeq(run.images, 1, Min(done * b, n)), b, done, size, member)
     /\ run.returned => done = run.totalBatches
     /\ run.pc = "batch" =>
          /\ done + 1 <= run.totalBatches
          /\ Len(run.tasks) = Cardinality(GroupPositions(done + 1, b, n))
          /\ \A j \in 1..Len(run.tasks) :
               run.tasks[j].image = run.images[done * b + j]

SearchPartition(s) ==
  LET size == [g \in 1..Len(s.groups) |-> Len(s.groups[g].batch)]
      member(g, j) == s.groups[g].batch[j]
  IN /\ s.totalBatches = Len(s.groups)
     /\ IsPartition(s.images, s.batchSize, Len(s.groups), size, member)

C29_Partitioning ==
  /\ \A r \in 1..Len(runs) : UploadPartition(runs[r])
  /\ search.pc # "idle" => SearchPartition(search)

\* Three images in groups of two, by the upload run and then by the search:
\* a full group followed by a last group of one image.
C29_Witness ==
  /\ Len(runs) = 1
  /\ runs[1].returned
  /\ runs[1].batchSize = 2
  /\ Len(runs[1].images) = 3
  /\ Len(runs[1].callbacks) = 2
  /\ runs[1].callbacks[1].count = 2
  /\ runs[1].callbacks[2].count = 1
  /\ search.pc = "await"
  /\ Len(search.groups) = 2
  /\ search.groups[1].batch = <<1, 2>>
  /\ search.groups[2].batch = <<3>>

(***************************************************************************)
(* handleSearch (page.tsx), searchImagesAPI (api.ts) and the route         *)
(* POST /api/search-images (route.ts).                                     *)
(***************************************************************************)
\* state.images.filter((img) => img.processing_status === "completed")
CompletedImages(imgs) ==
  SelectSeq(imgs, LAMBDA img : img.processing_status = "completed")

ImageIds(imgs) == [k \in 1..Len(imgs) |-> imgs[k].id]

\* setState: search_state: {...prev.search_state, query, is_searching: true}
HandleSearchBegin(st, query) ==
  [st EXCEPT !.query = query, !.is_searching = TRUE]

\* setState: search_state: {...prev.search_state, results,
\*                          is_searching: false, last_search_time: new Date()}
HandleSearchFinish(st, results) ==
  [st EXCEPT !.results = results, !.is_searching = FALSE,
             !.last_search_time = "date"]

\* similarities.map((similarity) => ({image_id, similarity_score: score}))
ToSearchResults(similarities) ==
  [k \in 1..Len(similarities) |->
     [image_id |-> similarities[k].image_id,
      similarity_score |-> IF "score" \in DOMAIN similarities[k]
                             THEN similarities[k].score
                             ELSE UNDEFINED]]

Faults == {"none", "searchImages throws", "network"}

\* Variant: the route does not test the query.
RoutePostAnyQuery(query, corpus, variant, fault) ==
  IF fault = "searchImages throws"
    THEN [ok |-> FALSE, status |-> 500,
          body |-> [error |-> "Failed to search images"]]
    ELSE [ok |-> TRUE, status |-> 200,
          body |-> SearchReply(variant, 0, corpus, corpus)]

\* POST: 400 when `!query || !images` (the empty string is falsy, an array
\* never is), 500 when searchImages throws, else the answer of searchImages.
RoutePost(query, corpus, variant, fault) ==
  IF query = ""
    THEN [ok |-> FALSE, status |-> 400,
          body |-> [error |-> "Missing query or images"]]
    ELSE IF fault = "searchImages throws"
      THEN [ok |-> FALSE, status |-> 500,
            body |-> [error |-> "Failed to search images"]]
      ELSE [ok |-> TRUE, status |-> 200,
            body |-> SearchReply(variant, 0, corpus, corpus)]

\* searchImagesAPI: fetch rejects, or `!response.ok` throws, or the body
SearchImagesAPI(query, corpus, variant, fault) ==
  LET response == RoutePost(query, corpus, variant, fault)
  IN IF fault = "network"
       THEN [threw |-> TRUE, error |-> ErrorObj("Failed to fetch", 1)]
       ELSE IF ~response.ok
         THEN [threw |-> TRUE, error |-> ErrorObj("Failed to search images", 1)]
         ELSE [threw |-> FALSE, value |-> response.body]

\* an activation of handleSearch waiting for searchImagesAPI
SearchActivation(query, corpus, pc, wrote) ==
  [query |-> query, corpus |-> corpus, pc |-> pc, wrote |-> wrote]

\* Variant: no try/catch around the await, the error escapes handleSearch.
HandleSearchResumeNoCatch(act, st, api) ==
  IF api.threw \/ api.value.similarities = UNDEFINED
    THEN [act |-> [act EXCEPT !.pc = "rejected"], st |-> st]
    ELSE LET results == ToSearchResults(api.value.similarities)
         IN [act |-> [act EXCEPT !.pc = "done", !.wrote = results],
             st |-> HandleSearchFinish(st, results)]

\* the await of searchImagesAPI resumes: the try branch maps the answer
\* (a TypeError when `similarities` is undefined), the catch branch writes
\* empty results
HandleSearchResume(act, st, api) ==
  IF api.threw \/ api.value.similarities = UNDEFINED
    THEN [act |-> [act EXCEPT !.pc = "done", !.wrote = <<>>],
          st |-> HandleSearchFinish(st, <<>>)]
    ELSE LET results == ToSearchResults(api.value.similarities)
         IN [act |-> [act EXCEPT !.pc = "done", !.wrote = results],
             st |-> HandleSearchFinish(st, results)]

pageVars == <<retry, trace, images, upload_progress, runs, nextId, faulty,
              groupFaults, batchSize, search, mode>>

\* handleSearch(query) up to its first await, or to its return when no
\* image is completed
HandleSearch(query) ==
  /\ Len(searches) < MaxSearches
  /\ LET corpus == ImageIds(CompletedImages(images))
         st1 == HandleSearchBegin(search_state, query)
     IN IF Len(corpus) = 0
          THEN /\ search_state' = HandleSearchFinish(st1, <<>>)
               /\ searches' = Append(searches,
                                SearchActivation(query, corpus, "done", <<>>))
          ELSE /\ search_state' = st1
               /\ searches' = Append(searches,
                                SearchActivation(query, corpus, "fetch", NULL))
  /\ UNCHANGED pageVars

\* SearchBar (rendered in search mode): handleSubmit and the example
\* buttons call onSearch with a non-empty query; the form is disabled
\* while no image is completed and submits nothing while isSearching
SearchBarSubmit(query) ==
  /\ mode = "search"
  /\ query # ""
  /\ ~search_state.is_searching
  /\ Len(CompletedImages(images)) > 0
  /\ HandleSearch(query)

\* SearchBar: handleClear calls onSearch(""); its button is disabled while
\* isSearching
SearchBarClear ==
  /\ mode = "search"
  /\ ~search_state.is_searching
  /\ HandleSearch("")

AppModes == {"upload", "search"}

\* handleModeChange(mode): switching to upload mode replaces search_state
\* by { query: "", results: [], is_searching: false } (no last_search_time)
HandleModeChange(m) ==
  /\ mode' = m
  /\ search_state' = IF m = "upload"
                       THEN [query |-> "", results |-> <<>>, is_searching |-> FALSE,
                             last_search_time |-> UNDEFINED]
                       ELSE search_state
  /\ UNCHANGED <<retry, trace, images, upload_progress, runs, nextId, faulty,
                 groupFaults, batchSize, search, searches>>

\* searchImagesAPI settles for activation a; handleSearch runs to its end
SearchFetchSettles(a, variant, fault) ==
  /\ searches[a].pc = "fetch"
  /\ LET api == SearchImagesAPI(searches[a].query, searches[a].corpus,
                                variant, fault)
         next == HandleSearchResume(searches[a], search_state, api)
     IN /\ searches' = [searches EXCEPT ![a] = next.act]
        /\ search_state' = next.st
  /\ UNCHANGED pageVars

\* the records the page can hold once its uploads are over
ImageOutcomes(id) ==
  LET before == [NewImage(id) EXCEPT !.processing_status = "processing"]
  IN {MergeResult(before, SuccessResult(id, FileUri(id), AnalysisReply(id))),
      MergeResult(before, FailureResult(id, "Failed to upload file"))}

PageImages ==
  UNION {{imgs \in [1..n -> UNION {ImageOutcomes(id) : id \in 1..n}] :
            \A k \in 1..n : imgs[k] \in ImageOutcomes(k)} : n \in 0..MaxImages}

(***************************************************************************)
(* Specification SpecPageSearch: searches on a page whose uploads are over.*)
(***************************************************************************)
PageSearchInit ==
  /\ retry = WithRetryStart(MAX_RETRIES, INITIAL_RETRY_DELAY)
  /\ trace = TraceStart
  /\ images \in PageImages
  /\ upload_progress = NULL
  /\ runs = <<>>
  /\ nextId = Len(images) + 1
  /\ faulty = {}
  /\ groupFaults = 0
  /\ batchSize = 1
  /\ search = SearchIdle
  /\ search_state = InitialSearchState
  /\ searches = <<>>
  /\ mode = IF Len(images) = 0 THEN "upload" ELSE "search"

PageSearchNext ==
  \/ \E q \in Queries : SearchBarSubmit(q)
  \/ SearchBarClear
  \/ \E m \in AppModes : HandleModeChange(m)
  \/ \E a \in 1..Len(searches) : \E v \in Variants, f \in Faults :
       SearchFetchSettles(a, v, f)

SpecPageSearch == PageSearchInit /\ [][PageSearchNext]_vars

(***************************************************************************)
(* C26  Caller-input fault: a search with an empty query over a non-empty  *)
(* completed corpus ends with an empty result list and is_searching =      *)
(* false (in the state its last update leaves), and no activation of       *)
(* handleSearch ever ends by an exception.                                 *)
(***************************************************************************)
C26_EmptyQuery ==
  /\ [](\A a \in 1..Len(searches) : searches[a].pc \in {"fetch", "done"})
  /\ [][\A a \in 1..Len(searches) :
          (/\ searches[a].query = ""
           /\ Len(searches[a].corpus) > 0
           /\ searches[a].pc = "fetch"
           /\ searches'[a].pc # "fetch")
          => /\ searches'[a].pc = "done"
             /\ searches'[a].wrote = <<>>
             /\ search_state'.results = <<>>
             /\ ~search_state'.is_searching]_vars

\* A search for "invoice" has put results on the page, and a later search
\* with the empty query over the same completed images has ended.
C26_Witness ==
  /\ Len(searches) = 2
  /\ searches[1].query = "invoice"
  /\ searches[1].pc = "done"
  /\ Len(searches[1].wrote) > 0
  /\ searches[2].query = ""
  /\ Len(searches[2].corpus) > 0
  /\ searches[2].pc = "done"
  /\ search_state.results = <<>>
  /\ ~search_state.is_searching

(***************************************************************************)
(* C31  Inter-group throttling: every delay of a run is the fixed          *)
(* INTER_BATCH_DELAY; when a group is in flight, one delay has elapsed     *)
(* for each group before it (a delay between every two consecutive         *)
(* groups); a run that has returned has slept once less than it has        *)
(* groups (no delay after the last group).                                 *)
(***************************************************************************)
C31_DelayBetweenGroups ==
  \A r \in 1..Len(runs) :
    /\ \A k \in 1..Len(runs[r].sleeps) : runs[r].sleeps[k] = INTER_BATCH_DELAY
    /\ runs[r].pc = "batch" => Len(runs[r].sleeps) = BatchIndex(runs[r])
    /\ (runs[r].returned /\ runs[r].totalBatches > 0) =>
         Len(runs[r].sleeps) = runs[r].totalBatches - 1

(***************************************************************************)
(* C32  A record is in status processing only from the moment its own task *)
(* has been launched: the record of an image of a run whose group has not  *)
(* started yet is still pending.                                           *)
(***************************************************************************)
\* the task of the k-th image of the run has been launched
Launched(run, k) == k <= Len(run.allResults) + Len(run.tasks)

C32_ProcessingWhenLaunched ==
  \A r \in 1..Len(runs) : \A k \in 1..Len(runs[r].images) :
    ~Launched(runs[r], k) =>
       ImageById(runs[r].images[k]).processing_status = "pending"

(***************************************************************************)
(* C33  Backpressure: at every moment of an upload run the number of image *)
(* tasks in flight (launched and not yet settled) is at most batchSize,    *)
(* and all tasks that exist belong to one and the same group.              *)
(***************************************************************************)
InFlight(run) == {k \in 1..Len(run.tasks) : run.tasks[k].promise = "pending"}

\* the position of an image in the input of its run
PositionOf(run, id) == CHOOSE k \in 1..Len(run.images) : run.images[k] = id

C33_Backpressure ==
  \A r \in 1..Len(runs) :
    /\ Cardinality(InFlight(runs[r])) <= runs[r].batchSize
    /\ Len(runs[r].tasks) <= runs[r].batchSize
    /\ \A j, k \in 1..Len(runs[r].tasks) :
         GroupOf(runs[r], PositionOf(runs[r], runs[r].tasks[j].image))
           = GroupOf(runs[r], PositionOf(runs[r], runs[r].tasks[k].image))

\* The limit is reached: two tasks of a group of two are in flight at the
\* same time, one at its analyze call and one waiting to retry its upload.
C33_Witness ==
  \E r \in 1..Len(runs) :
    /\ runs[r].batchSize = 2
    /\ Cardinality(InFlight(runs[r])) = 2
    /\ \E j, k \in 1..2 :
         /\ runs[r].tasks[j].step = "analyze"
         /\ runs[r].tasks[k].step = "upload"
         /\ runs[r].tasks[k].r.state = "sleeping"

(***************************************************************************)
(* C34  The remote file reference is present only after a successful       *)
(* upload: no failure outcome carries a reference; a record holds          *)
(* gemini_file_uri only if a success outcome of its own image was merged   *)
(* into it, and every completed record holds the reference its upload      *)
(* returned.                                                               *)
(***************************************************************************)
C34_FileReference ==
  /\ \A r \in 1..Len(runs) :
       /\ \A k \in 1..Len(runs[r].allResults) :
            ~runs[r].allResults[k].success =>
               runs[r].allResults[k].geminiFileUri = UNDEFINED
       /\ \A k \in 1..Len(runs[r].tasks) :
            (runs[r].tasks[k].step = "done" /\ ~runs[r].tasks[k].value.success)
              => runs[r].tasks[k].value.geminiFileUri = UNDEFINED
  /\ \A k \in 1..Len(images) :
       /\ images[k].gemini_file_uri # UNDEFINED =>
            \E r \in 1..Len(runs) : \E j \in 1..Len(runs[r].allResults) :
              /\ runs[r].allResults[j].image = images[k].id
              /\ runs[r].allResults[j].success
              /\ runs[r].allResults[j].geminiFileUri = images[k].gemini_file_uri
       /\ images[k].processing_status = "completed" <=>
            images[k].gemini_file_uri = FileUri(images[k].id)
       /\ images[k].processing_status # "completed" =>
            images[k].gemini_file_uri = UNDEFINED

\* One record is completed with its reference; another is in error without
\* one although its upload had succeeded (its analyze calls failed).
C34_Witness ==
  \E r \in 1..Len(runs) : \E j, k \in 1..Len(runs[r].allResults) :
    /\ runs[r].allResults[j].success
    /\ ImageById(runs[r].allResults[j].image).gemini_file_uri
         = FileUri(runs[r].allResults[j].image)
    /\ ~runs[r].allResults[k].success
    /\ runs[r].allResults[k].error = "Failed to analyze image"
    /\ ImageById(runs[r].allResults[k].image).processing_status = "error"
    /\ ImageById(runs[r].allResults[k].image).gemini_file_uri = UNDEFINED

(***************************************************************************)
(* searchImages (lib/gemini): the remote model is asked to rank the images *)
(* of a group and answers with a text, or the call fails.  A text is a     *)
(* sequence of tokens: prose, the punctuation of JSON, the key             *)
(* "similarities": and the members of one entry (image_id and score).      *)
(***************************************************************************)
Tok(t) == [t |-> t]

Members(id, score) == [t |-> "members", image_id |-> id, score |-> score]

JsonEmptyList == <<Tok("{"), Tok("sim:"), Tok("["), Tok("]"), Tok("}")>>

JsonOneEntry(id) ==
  <<Tok("{"), Tok("sim:"), Tok("["),
    Tok("{"), Members(id, 90), Tok("}"),
    Tok("]"), Tok("}")>>

JsonOtherObject(id) == <<Tok("{"), Members(id, 90), Tok("}")>>

Fenced(text) == <<Tok("prose")>> \o text \o <<Tok("prose")>>

\* the texts the remote model answers with for a group holding `batch`
RemoteTexts(batch) ==
  {<<>>, <<Tok("prose")>>,
   JsonEmptyList, JsonOneEntry(batch[1]), JsonOtherObject(batch[1]),
   Fenced(JsonEmptyList), Fenced(JsonOneEntry(batch[1])),
   Fenced(JsonOtherObject(batch[1])),
   SubSeq(JsonOneEntry(batch[1]), 1, 5)}

IsEntryAt(text, i) ==
  /\ i + 2 <= Len(text)
  /\ text[i].t = "{"
  /\ text[i + 1].t = "members"
  /\ text[i + 2].t = "}"

\* the first n entries of the list in a text
RECURSIVE ParsedEntries(_, _)
ParsedEntries(text, n) ==
  IF n = 0 THEN <<>>
  ELSE Append(ParsedEntries(text, n - 1),
              Entry(text[3 * n + 2].image_id, text[3 * n + 2].score, 0, n))

\* JSON.parse(text): the object, or a SyntaxError
JsonParse(text) ==
  IF Len(text) = 3 /\ IsEntryAt(text, 1)
    THEN [ok |-> TRUE, value |-> [similarities |-> UNDEFINED]]
    ELSE IF /\ Len(text) >= 5
            /\ (Len(text) - 5) % 3 = 0
            /\ text[1].t = "{" /\ text[2].t = "sim:" /\ text[3].t = "["
            /\ text[Len(text) - 1].t = "]" /\ text[Len(text)].t = "}"
            /\ \A k \in 0..((Len(text) - 5) \div 3 - 1) : IsEntryAt(text, 4 + 3 * k)
      THEN [ok |-> TRUE,
            value |-> [similarities |->
                         ParsedEntries(text, (Len(text) - 5) \div 3)]]
      ELSE [ok |-> FALSE, value |-> NULL]

\* text.match(/\{[\s\S]*?\}/): from the first "{" to the first "}" after
\* it (non-greedy); <<>> when there is no match
RegexMatch(text) ==
  LET opens == {i \in 1..Len(text) : text[i].t = "{"}
  IN IF opens = {} THEN <<>>
     ELSE LET i == CHOOSE x \in opens : \A y \in opens : x <= y
              closes == {j \in (i + 1)..Len(text) : text[j].t = "}"}
          IN IF closes = {} THEN <<>>
             ELSE SubSeq(text, i, CHOOSE x \in closes : \A y \in closes : x <= y)

\* neither the text nor the fragment matched in it parses
TotalParseFailure(text) ==
  /\ ~JsonParse(text).ok
  /\ ~JsonParse(RegexMatch(text)).ok

TextAnswer(text) == [kind |-> "text", text |-> text]

CallFault == [kind |-> "fault", text |-> <<>>]

\* Variant: a text that does not parse makes searchImages throw.
SearchImagesStrict(answer, n) ==
  IF answer.kind = "fault"
    THEN [threw |-> TRUE, error |-> SearchError(n)]
    ELSE IF JsonParse(answer.text).ok
      THEN [threw |-> FALSE, value |-> JsonParse(answer.text).value]
      ELSE [threw |-> TRUE, error |-> SearchError(n)]

\* searchImages: the outer catch rethrows a fault of the remote call as
\* Error("Search failed: ..."); the inner try/catch parses the text, then
\* the matched fragment, and falls back to { similarities: [] }.
SearchImages(answer, n) ==
  IF answer.kind = "fault"
    THEN [threw |-> TRUE, error |-> SearchError(n)]
    ELSE IF JsonParse(answer.text).ok
      THEN [threw |-> FALSE, value |-> JsonParse(answer.text).value]
      ELSE IF JsonParse(RegexMatch(answer.text)).ok
        THEN [threw |-> FALSE, value |-> JsonParse(RegexMatch(answer.text)).value]
        ELSE [threw |-> FALSE, value |-> [similarities |-> <<>>]]

\* searchImageBatch resumes with what searchImages did for this answer
SearchImageBatchAnswer(t, answer) ==
  LET out == SearchImages(answer, t.r.attempt + 1)
  IN IF out.threw THEN SearchImageBatchReject(t, out.error)
                  ELSE SearchImageBatchResolve(t, out.value)

\* searchImagesInBatches(query, images) over images that fit in one group
\* (one call of searchImageBatch), with the answers of the remote model
\* recorded call by call
SearchImagesInBatchesLogged(query, n, b) ==
  /\ search.pc = "idle"
  /\ n <= b
  /\ search' = [answers |-> <<>>] @@ SearchStart(query, [k \in 1..n |-> k], b, 0)
  /\ UNCHANGED uploadVars

RemoteCall(g, answer) ==
  /\ search.pc = "await"
  /\ search.groups[g].promise = "pending"
  /\ search.groups[g].r.state = "calling"
  /\ LET s2 == [search EXCEPT
                  !.groups[g] = SearchImageBatchAnswer(search.groups[g], answer),
                  !.answers = Append(@, [group |-> g,
                                         attempt |-> search.groups[g].r.attempt,
                                         answer |-> answer])]
     IN search' = NoteSettled(s2, g)
  /\ UNCHANGED uploadVars

RemoteModelAnswers(g, text) == RemoteCall(g, TextAnswer(text))

RemoteCallFaults(g) ==
  /\ search.pc = "await"
  /\ MaySearchFail(g)
  /\ RemoteCall(g, CallFault)

(***************************************************************************)
(* Specification SpecSearchText: one search of a single group, the remote  *)
(* model answering each ranking call with a text or failing.               *)
(***************************************************************************)
SearchTextNext ==
  \/ \E q \in Queries, n \in 0..MaxImages, b \in 1..MaxBatchSize :
       SearchImagesInBatchesLogged(q, n, b)
  \/ \E g \in SearchGroups : \E text \in RemoteTexts(search.groups[g].batch) :
       RemoteModelAnswers(g, text)
  \/ \E g \in SearchGroups : RemoteCallFaults(g)
  \/ \E g \in SearchGroups : SearchSleepElapses(g)
  \/ SearchSettles

SpecSearchText == SearchInit /\ [][SearchTextNext]_vars

(***************************************************************************)
(* C35  Search collaborator degradation.  For every ranking call of a      *)
(* group: when the remote model answered with a text, searchImages         *)
(* returned (with the empty similarities list if neither the text nor a    *)
(* fragment of it parses as JSON), that call was the last one of the group *)
(* (no retry), and searchImageBatch is fulfilled; when the call itself     *)
(* failed, searchImages threw and withRetry retries it (sleeps, then calls *)
(* again) unless it was the last allowed attempt.                          *)
(***************************************************************************)
GroupAnswers(g) == SelectSeq(search.answers, LAMBDA e : e.group = g)

C35_ParseDegradation ==
  (search.pc \in {"await", "returned"} /\ Len(search.groups) > 0) =>
    \A g \in 1..Len(search.groups) :
      LET log == GroupAnswers(g)
          grp == search.groups[g]
      IN \A k \in 1..Len(log) :
           /\ log[k].attempt = k - 1
           /\ log[k].answer.kind = "text" =>
                /\ k = Len(log)
                /\ grp.promise = "fulfilled"
                /\ grp.r.state = "returned"
                /\ grp.r.attempt = k - 1
                /\ TotalParseFailure(log[k].answer.text) =>
                     /\ grp.r.value = [similarities |-> <<>>]
                     /\ grp.value = [similarities |-> <<>>]
           /\ (log[k].answer.kind = "fault" /\ k - 1 < MAX_RETRIES) =>
                \/ k < Len(log)
                \/ grp.r.state = "sleeping" /\ grp.r.attempt = k - 1
                \/ grp.r.state = "calling" /\ grp.r.attempt = k
           /\ (log[k].answer.kind = "fault" /\ k - 1 = MAX_RETRIES) =>
                /\ k = Len(log)
                /\ grp.r.state = "thrown"

\* The first call failed and was retried; the second was answered with a
\* text that holds an entry inside prose, from which nothing parses: the
\* group is fulfilled with an empty list after two calls.
C35_Witness ==
  /\ search.pc = "returned"
  /\ Len(search.groups) = 1
  /\ Len(search.answers) = 2
  /\ search.answers[1].answer.kind = "fault"
  /\ search.answers[2].answer.kind = "text"
  /\ Len(search.answers[2].answer.text) > 3
  /\ TotalParseFailure(search.answers[2].answer.text)
  /\ search.calls = 2
  /\ search.groups[1].value = [similarities |-> <<>>]
  /\ search.result = <<>>

(***************************************************************************)
(* C36  Remote-call budget.  A call is issued when a step starts (attempt  *)
(* 0) and each time a backoff sleep ends (attempt + 1).  In an upload run  *)
(* the attempt number of a task never exceeds MAX_RETRIES in either step,  *)
(* it grows by one at a time, and it restarts at 0 only once, when the     *)
(* task goes from upload to analyze: at most MAX_RETRIES + 1 upload calls  *)
(* and MAX_RETRIES + 1 analyze calls per image.  In a search the attempt   *)
(* number of a group never exceeds MAX_RETRIES, and the number of ranking  *)
(* calls issued is at most MAX_RETRIES + 1 per group.                      *)
(***************************************************************************)
C36_CallBudget ==
  /\ [](/\ \A r \in 1..Len(runs) : \A k \in 1..Len(runs[r].tasks) :
             runs[r].tasks[k].r.attempt \in 0..MAX_RETRIES
        /\ search.pc \in {"await", "returned"} =>
             /\ \A g \in 1..Len(search.groups) :
                  search.groups[g].r.attempt \in 0..MAX_RETRIES
             /\ search.calls <= Len(search.groups) * (MAX_RETRIES + 1))
  /\ [][/\ \A r \in 1..Len(runs) : \A k \in 1..Len(runs[r].tasks) :
             (/\ Len(runs'[r].tasks) = Len(runs[r].tasks)
              /\ runs'[r].tasks[k].image = runs[r].tasks[k].image
              /\ runs'[r].tasks[k].r.attempt # runs[r].tasks[k].r.attempt)
             => \/ /\ runs'[r].tasks[k].r.attempt = runs[r].tasks[k].r.attempt + 1
                   /\ runs'[r].tasks[k].step = runs[r].tasks[k].step
                   /\ runs[r].tasks[k].r.state = "sleeping"
                \/ /\ runs'[r].tasks[k].r.attempt = 0
                   /\ runs[r].tasks[k].step = "upload"
                   /\ runs'[r].tasks[k].step = "analyze"
        /\ (search.pc = "await" /\ search'.pc = "await") =>
             \A g \in 1..Len(search.groups) :
               search'.groups[g].r.attempt # search.groups[g].r.attempt =>
                 /\ search'.groups[g].r.attempt = search.groups[g].r.attempt + 1
                 /\ search'.calls = search.calls + 1
        /\ (search.pc = "await" /\ search'.calls # search.calls) =>
             \E g \in 1..Len(search.groups) :
               search'.groups[g].r.attempt = search.groups[g].r.attempt + 1]_vars

\* After an upload run of three images, a search of two groups has used
\* the whole budget of its first group (MAX_RETRIES + 1 calls) and one
\* call for the second.
C36_Witness ==
  /\ Len(runs) = 1
  /\ runs[1].returned
  /\ Len(runs[1].allResults) = 3
  /\ search.pc = "returned"
  /\ Len(search.groups) = 2
  /\ search.groups[1].r.state = "thrown"
  /\ search.groups[1].r.attempt = MAX_RETRIES
  /\ search.calls = MAX_RETRIES + 2

(***************************************************************************)
(* C37  In a search no onBatchComplete callback is invoked while a group   *)
(* is still pending: the callbacks are all made in the one step that       *)
(* follows the settling of the last group, in increasing batchIndex order  *)
(* (0, 1, 2, ...), whatever the order in which the groups settled.         *)
(***************************************************************************)
C37_CallbacksAfterAllSettled ==
  /\ [](search.pc = "await" => search.callbacks = <<>>)
  /\ [][(search.pc = "await" /\ search'.callbacks # search.callbacks) =>
          /\ \A g \in 1..Len(search.groups) :
               search.groups[g].promise # "pending"
          /\ Len(search.settled) = Len(search.groups)
          /\ search'.pc = "returned"
          /\ Len(search'.callbacks) = Len(search.groups)
          /\ \A c \in 1..Len(search'.callbacks) :
               search'.callbacks[c].batchIndex = c - 1
          /\ \A c, d \in 1..Len(search'.callbacks) :
               c < d => search'.callbacks[c].batchIndex
                          < search'.callbacks[d].batchIndex]_vars

\* The groups settled in the order 1, 2, 0 and the callbacks were made in
\* the order 0, 1, 2.
C37_Witness ==
  /\ search.pc = "returned"
  /\ search.settled = <<1, 2, 0>>
  /\ Len(search.callbacks) = 3
  /\ search.callbacks[1].batchIndex = 0
  /\ search.callbacks[2].batchIndex = 1
  /\ search.callbacks[3].batchIndex = 2

(***************************************************************************)
(* C38  Search results are never stale: is_searching is true whenever a    *)
(* request of handleSearch is still in flight, and results that are shown  *)
(* are those written by the most recently issued search, whose query is    *)
(* the one in search_state (so not the query cleared by a later switch to  *)
(* upload mode).                                                           *)
(***************************************************************************)
C38_NotStale ==
  /\ (\E a \in 1..Len(searches) : searches[a].pc = "fetch")
       => search_state.is_searching
  /\ Len(search_state.results) > 0 =>
       /\ Len(searches) > 0
       /\ Last(searches).pc = "done"
       /\ search_state.results = Last(searches).wrote
       /\ search_state.query = Last(searches).query

====
